---- MODULE Spec2Model ----
(***************************************************************************)
(* Model of the folder scanner: the scan-and-aggregate engine of           *)
(* src/scan.rs (directory walk, parallel size sum, parallel extension      *)
(* histogram, size-threshold filter) and the out-of-process dispatch of    *)
(* src/ipc.rs (spawn, exit-status validation, JSON decoding) together with *)
(* the executable's entry point in src/main.rs.                            *)
(*                                                                         *)
(* Strings are sequences of one-character strings, so that trimming,       *)
(* lower-casing, extension extraction and decimal formatting are computed. *)
(***************************************************************************)
EXTENDS Integers, Sequences, FiniteSets, TLC

\* ------------------------------------------------------------------------
\* Bounds of the model
\* ------------------------------------------------------------------------
MaxFiles == 3   \* directory entries under the scanned root
MaxSize == 1    \* largest file size in bytes; thresholds range over 0..MaxSize+1
MaxErrLen == 3  \* bytes a child process writes to standard error
MaxArgs == 3    \* arguments after the program name in a direct invocation
MaxChanges == 1 \* changes other programs make to the files while a scan runs
MaxNameLen == 3 \* characters of a file name given to ekstrak_ekstensi_file
MaxScans == 2   \* presses of the calculate button that start a worker thread
MaxCustomLen == 5 \* characters typed into the custom size entry
MaxTokens == 3  \* tokens of a text given to parse_human_input_to_bytes
MaxPresses == 2 \* presses of the calculate button, with scans still in flight

\* ------------------------------------------------------------------------
\* Generic helpers
\* ------------------------------------------------------------------------
RECURSIVE SumSeq(_)
SumSeq(s) == IF s = <<>> THEN 0 ELSE Head(s) + SumSeq(Tail(s))

RECURSIVE FlattenSeq(_)
FlattenSeq(ss) == IF ss = <<>> THEN <<>> ELSE Head(ss) \o FlattenSeq(Tail(ss))

SeqsUpTo(S, n) == UNION {[1..k -> S] : k \in 0..n}

Perms(S) == {p \in [1..Cardinality(S) -> S] : \A i, j \in DOMAIN p : i # j => p[i] # p[j]}

\* All ways to cut a sequence into contiguous non-empty segments: what a
\* work-stealing split of a slice can produce.  A cut set c holds the
\* positions after which a new segment starts.
Segmentations(s) ==
    IF s = <<>> THEN {<<>>}
    ELSE { LET bounds == {0} \cup c \cup {Len(s)}
               starts == {b \in bounds : b < Len(s)}
               NextB(b) == CHOOSE e \in bounds : e > b /\ \A f \in bounds : f > b => e <= f
               ordered == CHOOSE o \in [1..Cardinality(starts) -> starts] :
                              \A i, j \in DOMAIN o : i < j => o[i] < o[j]
           IN [k \in DOMAIN ordered |-> SubSeq(s, ordered[k] + 1, NextB(ordered[k]))]
         : c \in SUBSET (1..(Len(s) - 1)) }

\* ------------------------------------------------------------------------
\* Characters
\* ------------------------------------------------------------------------
UpperChars == <<"A","B","C","D","E","F","G","H","I","J","K","L","M",
                "N","O","P","Q","R","S","T","U","V","W","X","Y","Z">>
LowerChars == <<"a","b","c","d","e","f","g","h","i","j","k","l","m",
                "n","o","p","q","r","s","t","u","v","w","x","y","z">>

\* str::to_lowercase, one character at a time
LowerChar(c) ==
    IF \E i \in DOMAIN UpperChars : UpperChars[i] = c
    THEN LowerChars[CHOOSE i \in DOMAIN UpperChars : UpperChars[i] = c]
    ELSE c

ToLowercase(s) == [i \in DOMAIN s |-> LowerChar(s[i])]

\* A byte sequence that is not valid UTF-8 (OsStr::to_str gives None on it)
InvalidUnit == "\\xFF"

\* ------------------------------------------------------------------------
\* Text helpers: lossy decoding, trimming, decimal formatting
\* ------------------------------------------------------------------------
Replacement == "\\uFFFD"

\* String::from_utf8_lossy: every invalid unit becomes U+FFFD
LossyUnit(u) == IF u = InvalidUnit THEN Replacement ELSE u

from_utf8_lossy(bytes) == [i \in DOMAIN bytes |-> LossyUnit(bytes[i])]

IsWhitespace(c) == c \in {" ", "\n", "\t", "\r"}

RECURSIVE TrimStart(_)
TrimStart(s) ==
    IF s # <<>> /\ IsWhitespace(Head(s)) THEN TrimStart(Tail(s)) ELSE s

RECURSIVE TrimEnd(_)
TrimEnd(s) ==
    IF s # <<>> /\ IsWhitespace(s[Len(s)]) THEN TrimEnd(SubSeq(s, 1, Len(s) - 1)) ELSE s

\* str::trim
Trim(s) == TrimEnd(TrimStart(s))

Digits == <<"0","1","2","3","4","5","6","7","8","9">>

\* u64::to_string: decimal digits, most significant first, no sign, no padding
RECURSIVE ToDecimal(_)
ToDecimal(n) ==
    IF n < 10 THEN <<Digits[n + 1]>>
    ELSE ToDecimal(n \div 10) \o <<Digits[(n % 10) + 1]>>

\* ------------------------------------------------------------------------
\* The file system seen by one scan
\* ------------------------------------------------------------------------
FileNames == { <<"a",".","T","X","T">>, <<"R","E","A","D","M","E">> }
DirName == <<"s","u","b">>

LinkName == <<"l",".","t","x","t">>
RootName == <<"d">>

\* An item as WalkDir yields it: its type, its file name, whether
\* fs::metadata succeeds on it and the length of the file (which the scan
\* learns only when the lookup succeeds).
FileEntries ==
    [kind : {"file"}, name : FileNames, readable : {TRUE}, size : 0..MaxSize]
    \cup [kind : {"file"}, name : FileNames, readable : {FALSE}, size : {MaxSize}]

\* Items that are not regular files: a directory, a symbolic link (links are
\* not followed below the root, so a broken one is yielded like any other),
\* and the Err item that stands for an entry the walk could not read.
DirItem == [kind |-> "dir", name |-> DirName, readable |-> TRUE, size |-> 0]
LinkItem == [kind |-> "symlink", name |-> LinkName, readable |-> FALSE, size |-> 0]
ErrItem == [kind |-> "error", name |-> DirName, readable |-> FALSE, size |-> 0]
OtherEntries == {DirItem, LinkItem, ErrItem}
DirEntries == FileEntries \cup OtherEntries

\* The item WalkDir yields for the root itself (depth 0): the directory, or,
\* when the root names a regular file, that file as the only item, or, when
\* the root does not exist, one Err item.
RootDir == [kind |-> "dir", name |-> RootName, readable |-> TRUE, size |-> 0]

\* The whole walk, in the order the iterator yields it
Trees ==
    {<<r>> : r \in FileEntries \cup {ErrItem}}
    \cup {<<RootDir>> \o t : t \in SeqsUpTo(DirEntries, MaxFiles)}
Thresholds == 0..(MaxSize + 1)

VARIABLES
    tree,                  \* the items the walk of the root yields, in order
    ukuran_minimum_bytes,  \* the threshold argument of scan_folder
    pc,                    \* position inside scan_folder
    daftar_path_file,      \* collected paths: indices into tree
    total_ukuran,          \* result of hitung_total_ukuran_file
    partials,              \* per-split HashMaps of the fold, while being reduced
    jumlah_per_ekstensi,   \* result of hitung_ekstensi_file
    daftar_file_terfilter, \* result of filter_file_berdasarkan_ukuran
    hasil                  \* the returned Result<FolderStats, String>

scanVars == <<tree, ukuran_minimum_bytes, pc, daftar_path_file, total_ukuran,
              partials, jumlah_per_ekstensi, daftar_file_terfilter, hasil>>

VARIABLES
    exe_path,    \* what the exe_path argument of run_worker_scan names on disk
    folder,      \* the folder argument
    min_bytes,   \* the min_bytes argument
    ipc_pc,      \* position inside run_worker_scan
    procs,       \* the processes started so far, in order
    output,      \* the std::process::Output that Command::output returned
    ipc_hasil,   \* the Result<FolderStats, String> run_worker_scan returned
    ipc_trace    \* the functions of ipc.rs entered so far, in order

ipcVars == <<exe_path, folder, min_bytes, ipc_pc, procs, output, ipc_hasil, ipc_trace>>

VARIABLES
    tree_walked, \* the items as they were when the walk yielded them
    changes      \* how many times other programs changed a file since then

liveVars == <<tree_walked, changes>>

VARIABLES
    nama_file,      \* two file names given to ekstrak_ekstensi_file
    kunci_ekstensi  \* the keys it returned for them, <<>> before the calls

VARIABLES
    opsi_filter,    \* the label given to parse_filter_option
    teks_custom,    \* its custom text: <<>> for None, <<text>> for Some(text)
    bytes_scan,     \* what parse_filter_option of scan.rs returned
    bytes_main      \* what parse_filter_option of main.rs returned

VARIABLES
    token_input,    \* the tokens the user typed, in order
    teks_input,     \* the text given to parse_human_input_to_bytes
    parsed_scan,    \* what parse_human_input_to_bytes of scan.rs returned
    parsed_main     \* what parse_human_input_to_bytes of main.rs returned

parseVars == <<token_input, teks_input, parsed_scan, parsed_main>>

pureVars == <<nama_file, kunci_ekstensi, opsi_filter, teks_custom, bytes_scan, bytes_main,
              parseVars>>

VARIABLES
    channel,     \* the mpsc queue of Result<FolderStats, String> messages
    total_label, \* text of the total-size label
    count_label, \* text of the file-count label
    ext_list,    \* rows of the extension list box
    file_list,   \* rows of the file list box
    spinner,     \* whether the spinner is running
    dimulai,     \* worker threads spawned so far
    terkirim,    \* messages the worker threads sent so far
    diterima     \* messages the polling handler took from the channel, in order

uiVars == <<channel, total_label, count_label, ext_list, file_list, spinner,
            dimulai, terkirim, diterima>>

VARIABLES
    program,     \* the window that is built: "ui" (src/ui.rs) or "main" (src/main.rs)
    isian,       \* path entry, active combo text and custom entry at the last press
    ditekan,     \* presses of the calculate button so far
    threads,     \* the threads spawned so far, in order: the threshold each was
                 \* given, the result it sent (NoResult while it runs) and the
                 \* position of that result among the results sent
    polling      \* whether the 100 ms timeout source is still installed

windowVars == <<program, isian, ditekan, threads, polling>>

vars == <<scanVars, ipcVars, liveVars, pureVars, uiVars, windowVars>>

\* What a step of scan_folder, a step of the dispatch, a change of the file
\* system and a call of a free-standing function leave alone
outsideScan == <<ipcVars, liveVars, pureVars, uiVars, windowVars>>
outsideIpc == <<scanVars, liveVars, pureVars, uiVars, windowVars>>
outsideLive == <<ipcVars, pureVars, uiVars, windowVars>>
outsidePure == <<scanVars, ipcVars, liveVars, uiVars, windowVars>>

NoResult == [tag |-> "none"]
OkStats(s) == [tag |-> "Ok", stats |-> s]

\* ------------------------------------------------------------------------
\* src/scan.rs: pure helpers
\* ------------------------------------------------------------------------
Unknown == <<"u","n","k","n","o","w","n">>

\* Path::extension: the part of the file name after its last dot; none when
\* there is no dot or the only dot is the first character.
LastDot(name) ==
    IF \E i \in DOMAIN name : name[i] = "."
    THEN CHOOSE i \in DOMAIN name : name[i] = "." /\ \A j \in DOMAIN name : name[j] = "." => j <= i
    ELSE 0

HasExtension(name) == LastDot(name) > 1 /\ name # <<".", ".">>

PathExtension(name) == SubSeq(name, LastDot(name) + 1, Len(name))

IsUtf8(s) == \A i \in DOMAIN s : s[i] # InvalidUnit

\* An extraction that keeps the letter case of the extension
ekstrak_tanpa_lowercase(name) ==
    IF HasExtension(name) /\ IsUtf8(PathExtension(name))
    THEN PathExtension(name)
    ELSE Unknown

ekstrak_ekstensi_file(name) ==
    IF HasExtension(name) /\ IsUtf8(PathExtension(name))
    THEN ToLowercase(PathExtension(name))
    ELSE Unknown

EmptyMap == [k \in {} |-> 0]

\* A fold step that inserts 1 for a new key and then still adds 1
tambahkan_ekstensi_mulai_satu(map_akumulasi, ekstensi) ==
    IF ekstensi \in DOMAIN map_akumulasi
    THEN [map_akumulasi EXCEPT ![ekstensi] = @ + 1]
    ELSE [k \in DOMAIN map_akumulasi \cup {ekstensi} |->
            IF k = ekstensi THEN 1 + 1 ELSE map_akumulasi[k]]

\* *map.entry(ekstensi).or_insert(0) += 1
tambahkan_ekstensi_ke_map(map_akumulasi, ekstensi) ==
    IF ekstensi \in DOMAIN map_akumulasi
    THEN [map_akumulasi EXCEPT ![ekstensi] = @ + 1]
    ELSE [k \in DOMAIN map_akumulasi \cup {ekstensi} |->
            IF k = ekstensi THEN 0 + 1 ELSE map_akumulasi[k]]

\* for (ekstensi, jumlah) in map_kedua { *map_pertama.entry(..).or_insert(0) += jumlah }
RECURSIVE GabungLoop(_, _, _)
GabungLoop(map_pertama, map_kedua, todo) ==
    IF todo = {} THEN map_pertama
    ELSE LET ekstensi == CHOOSE k \in todo : TRUE
             jumlah == map_kedua[ekstensi]
             lanjut == IF ekstensi \in DOMAIN map_pertama
                       THEN [map_pertama EXCEPT ![ekstensi] = @ + jumlah]
                       ELSE [k \in DOMAIN map_pertama \cup {ekstensi} |->
                               IF k = ekstensi THEN 0 + jumlah ELSE map_pertama[k]]
         IN GabungLoop(lanjut, map_kedua, todo \ {ekstensi})

\* A merge that keeps the first map's count for a key both maps hold
gabungkan_tanpa_menjumlah(map_pertama, map_kedua) ==
    [k \in DOMAIN map_pertama \cup DOMAIN map_kedua |->
       IF k \in DOMAIN map_pertama THEN map_pertama[k] ELSE map_kedua[k]]

gabungkan_map_ekstensi(map_pertama, map_kedua) ==
    GabungLoop(map_pertama, map_kedua, DOMAIN map_kedua)

\* The sequential fold of one split, started from HashMap::new()
RECURSIVE FoldSplit(_, _)
FoldSplit(acc, exts) ==
    IF exts = <<>> THEN acc
    ELSE FoldSplit(tambahkan_ekstensi_ke_map(acc, Head(exts)), Tail(exts))

\* A sort that leaves the vector in the order the map was iterated
TanpaUrut(v) == v

\* Vec::sort_by(|a, b| b.1.cmp(&a.1)): a stable sort, descending by count
RECURSIVE InsertDesc(_, _)
InsertDesc(sorted, e) ==
    IF sorted = <<>> THEN <<e>>
    ELSE IF Head(sorted)[2] >= e[2]
         THEN <<Head(sorted)>> \o InsertDesc(Tail(sorted), e)
         ELSE <<e>> \o sorted

RECURSIVE SortByCountDesc(_)
SortByCountDesc(v) ==
    IF v = <<>> THEN <<>>
    ELSE InsertDesc(SortByCountDesc(SubSeq(v, 1, Len(v) - 1)), v[Len(v)])

\* An iteration that visits every entry of the map twice
IterasiBerulang(map) ==
    {[i \in 1..(2 * Len(p)) |-> <<p[((i - 1) % Len(p)) + 1], map[p[((i - 1) % Len(p)) + 1]]>>]
       : p \in Perms(DOMAIN map)}

\* HashMap::into_iter visits the entries in an order the hasher decides:
\* every order is possible.
IterationOrders(map) == {[i \in DOMAIN p |-> <<p[i], map[p[i]]>>] : p \in Perms(DOMAIN map)}

konversi_dan_urutkan_map_ekstensi(map_ekstensi) ==
    {SortByCountDesc(hasil_vector) : hasil_vector \in IterationOrders(map_ekstensi)}

\* fs::metadata(path).map(|m| m.len()).unwrap_or(0)
ambil_ukuran_file(fs, path_file) ==
    IF fs[path_file].readable THEN fs[path_file].size ELSE 0

\* A lookup that falls back to size 0 instead of giving None
ambil_path_dan_ukuran_atau_nol(fs, path_file) ==
    IF fs[path_file].readable THEN <<[path |-> path_file, size |-> fs[path_file].size]>>
    ELSE <<[path |-> path_file, size |-> 0]>>

\* fs::metadata(path).ok().map(|m| (path.clone(), m.len())): <<>> models None
ambil_path_dan_ukuran(fs, path_file) ==
    IF fs[path_file].readable THEN <<[path |-> path_file, size |-> fs[path_file].size]>>
    ELSE <<>>

\* The path of the entry at walk position i: the position names its
\* directory, which keeps the paths of distinct entries distinct.
PathString(fs, i) == ToDecimal(i) \o <<"/">> \o fs[i].name

\* path_file.to_string_lossy().into_owned()
konversi_ke_file_entry(fs, e) ==
    [path |-> from_utf8_lossy(PathString(fs, e.path)), size |-> e.size]

\* A size test that leaves out the bound itself
lolos_di_atas_minimum(ukuran, ukuran_minimum) == ukuran > ukuran_minimum

\* .filter(|(_, ukuran)| *ukuran >= ukuran_minimum)
lolos_ukuran_minimum(ukuran, ukuran_minimum) == ukuran >= ukuran_minimum

\* One split of the filter pipeline: filter_map, filter, map, in order
RECURSIVE FilterSplit(_, _, _)
FilterSplit(fs, seg, ukuran_minimum) ==
    IF seg = <<>> THEN <<>>
    ELSE LET got == ambil_path_dan_ukuran(fs, Head(seg))
             rest == FilterSplit(fs, Tail(seg), ukuran_minimum)
         IN IF got # <<>> /\ lolos_ukuran_minimum(got[1].size, ukuran_minimum)
            THEN <<konversi_ke_file_entry(fs, got[1])>> \o rest
            ELSE rest

\* A walk that keeps everything that is not a directory
RECURSIVE CollectSelainDirektori(_, _)
CollectSelainDirektori(fs, i) ==
    IF i > Len(fs) THEN <<>>
    ELSE IF fs[i].kind \in {"file", "symlink"} THEN <<i>> \o CollectSelainDirektori(fs, i + 1)
         ELSE CollectSelainDirektori(fs, i + 1)

\* WalkDir ... .filter_map(Result::ok).filter(is_file).map(into_path).collect()
RECURSIVE CollectFrom(_, _)
CollectFrom(fs, i) ==
    IF i > Len(fs) THEN <<>>
    ELSE IF fs[i].kind = "file" THEN <<i>> \o CollectFrom(fs, i + 1)
         ELSE CollectFrom(fs, i + 1)

\* A walk that gives up at the first item it cannot read
RECURSIVE CollectUntilError(_, _)
CollectUntilError(fs, i) ==
    IF i > Len(fs) \/ fs[i].kind = "error" THEN <<>>
    ELSE IF fs[i].kind = "file" THEN <<i>> \o CollectUntilError(fs, i + 1)
         ELSE CollectUntilError(fs, i + 1)

collect_berhenti_di_error(fs) == CollectUntilError(fs, 1)

collect_semua_file_paths(fs) == CollectFrom(fs, 1)

\* ------------------------------------------------------------------------
\* src/scan.rs: scan_folder, one action per statement
\* ------------------------------------------------------------------------
InitScan ==
    /\ tree \in Trees
    /\ ukuran_minimum_bytes \in Thresholds
    /\ pc = "collect"
    /\ daftar_path_file = <<>>
    /\ total_ukuran = 0
    /\ partials = <<>>
    /\ jumlah_per_ekstensi = <<>>
    /\ daftar_file_terfilter = <<>>
    /\ hasil = NoResult
    /\ tree_walked = tree
    /\ changes = 0

CollectPaths ==
    /\ pc = "collect"
    /\ daftar_path_file' = collect_semua_file_paths(tree)
    /\ pc' = "size"
    /\ UNCHANGED <<tree, ukuran_minimum_bytes, total_ukuran, partials,
                   jumlah_per_ekstensi, daftar_file_terfilter, hasil>>
    /\ UNCHANGED outsideScan

\* par_iter().map(ambil_ukuran_file).sum(): each split is summed, then the
\* partial sums are added.
HitungTotalUkuran ==
    /\ pc = "size"
    /\ \E segs \in Segmentations(daftar_path_file) :
         total_ukuran' =
            SumSeq([k \in DOMAIN segs |->
                      SumSeq([i \in DOMAIN segs[k] |-> ambil_ukuran_file(tree, segs[k][i])])])
    /\ pc' = "fold"
    /\ UNCHANGED <<tree, ukuran_minimum_bytes, daftar_path_file, partials,
                   jumlah_per_ekstensi, daftar_file_terfilter, hasil>>
    /\ UNCHANGED outsideScan

\* par_iter().map(ekstrak_ekstensi_file).fold(HashMap::new, tambahkan_ekstensi_ke_map):
\* one map per split; the reduce consumer of each split starts from its
\* identity HashMap::new() and merges the folded map into it.
FoldEkstensi ==
    /\ pc = "fold"
    /\ \E segs \in Segmentations(daftar_path_file) :
         partials' =
            [k \in DOMAIN segs |->
               gabungkan_map_ekstensi(EmptyMap,
                  FoldSplit(EmptyMap,
                     [i \in DOMAIN segs[k] |-> ekstrak_ekstensi_file(tree[segs[k][i]].name)]))]
    /\ pc' = "reduce"
    /\ UNCHANGED <<tree, ukuran_minimum_bytes, daftar_path_file, total_ukuran,
                   jumlah_per_ekstensi, daftar_file_terfilter, hasil>>
    /\ UNCHANGED outsideScan

\* .reduce(HashMap::new, gabungkan_map_ekstensi): two neighbouring partial
\* results are merged, left into right order kept, in any tree shape.
ReduceEkstensi ==
    /\ pc = "reduce"
    /\ Len(partials) > 1
    /\ \E k \in 1..(Len(partials) - 1) :
         partials' = SubSeq(partials, 1, k - 1)
                     \o <<gabungkan_map_ekstensi(partials[k], partials[k + 1])>>
                     \o SubSeq(partials, k + 2, Len(partials))
    /\ UNCHANGED <<tree, ukuran_minimum_bytes, pc, daftar_path_file, total_ukuran,
                   jumlah_per_ekstensi, daftar_file_terfilter, hasil>>
    /\ UNCHANGED outsideScan

\* The reduced map (HashMap::new() for an empty list) is converted and sorted.
UrutkanEkstensi ==
    /\ pc = "reduce"
    /\ Len(partials) <= 1
    /\ LET map_ekstensi == IF partials = <<>> THEN EmptyMap ELSE partials[1]
       IN jumlah_per_ekstensi' \in konversi_dan_urutkan_map_ekstensi(map_ekstensi)
    /\ pc' = "filter"
    /\ UNCHANGED <<tree, ukuran_minimum_bytes, daftar_path_file, total_ukuran,
                   partials, daftar_file_terfilter, hasil>>
    /\ UNCHANGED outsideScan

\* par_iter().filter_map(..).filter(..).map(..).collect(): the splits'
\* vectors are concatenated in slice order.
FilterFile ==
    /\ pc = "filter"
    /\ \E segs \in Segmentations(daftar_path_file) :
         daftar_file_terfilter' =
            FlattenSeq([k \in DOMAIN segs |-> FilterSplit(tree, segs[k], ukuran_minimum_bytes)])
    /\ pc' = "return"
    /\ UNCHANGED <<tree, ukuran_minimum_bytes, daftar_path_file, total_ukuran,
                   partials, jumlah_per_ekstensi, hasil>>
    /\ UNCHANGED outsideScan

ReturnStats ==
    /\ pc = "return"
    /\ hasil' = OkStats([total_size |-> total_ukuran,
                         total_files |-> Len(daftar_path_file),
                         extension_count |-> jumlah_per_ekstensi,
                         filtered_files |-> daftar_file_terfilter])
    /\ pc' = "done"
    /\ UNCHANGED <<tree, ukuran_minimum_bytes, daftar_path_file, total_ukuran,
                   partials, jumlah_per_ekstensi, daftar_file_terfilter>>
    /\ UNCHANGED outsideScan

NextScan ==
    \/ CollectPaths
    \/ HitungTotalUkuran
    \/ FoldEkstensi
    \/ ReduceEkstensi
    \/ UrutkanEkstensi
    \/ FilterFile
    \/ ReturnStats

\* ------------------------------------------------------------------------
\* ekstrak_ekstensi_file on file names of every shape
\* ------------------------------------------------------------------------
NameChars == {"a", "A", ".", InvalidUnit}

\* File names a directory can hold: not empty, not "." and not ".."
NameSamples ==
    {n \in SeqsUpTo(NameChars, MaxNameLen) : n \notin {<<>>, <<".">>, <<".", ".">>}}

InitEkstrak ==
    /\ nama_file \in NameSamples \X NameSamples
    /\ kunci_ekstensi = <<>>

EkstrakIdle ==
    /\ nama_file = <<<<"a">>, <<"a">>>>
    /\ kunci_ekstensi = <<>>

\* ------------------------------------------------------------------------
\* parse_filter_option and parse_human_input_to_bytes, as written in
\* src/scan.rs and as written again in src/main.rs
\* ------------------------------------------------------------------------
BYTES_PER_KB == 1024
BYTES_PER_MB == BYTES_PER_KB * 1024
BYTES_PER_GB == BYTES_PER_MB * 1024

\* A u64 byte count mb * 1048576 + b with 0 <= b < 1048576, kept in three
\* limbs of twenty bits (tb * 2^40 + mb * 2^20 + b) so that every u64 stays
\* within the integers of the checker
ByteCount(mb, b) == [tb |-> mb \div BYTES_PER_MB, mb |-> mb % BYTES_PER_MB, b |-> b]

\* u64::MAX = 2^64 - 1, what a float-to-integer cast saturates at
U64_MAX == [tb |-> 16777215, mb |-> 1048575, b |-> 1048575]

\* k * unit for a unit constant
Mul(k, unit) ==
    IF unit >= BYTES_PER_MB THEN ByteCount(k * (unit \div BYTES_PER_MB), 0)
    ELSE ByteCount((k * unit) \div BYTES_PER_MB, (k * unit) % BYTES_PER_MB)

\* The whole part of a * 1048576 / den, for 0 <= a and 0 < den
WholeOfMb(a, den) ==
    LET r == a % den
        r2 == (r * 1024) % den
    IN ByteCount(a \div den, ((r * 1024) \div den) * 1024 + (r2 * 1024) \div den)

UpperChar(c) ==
    IF \E i \in DOMAIN LowerChars : LowerChars[i] = c
    THEN UpperChars[CHOOSE i \in DOMAIN LowerChars : LowerChars[i] = c]
    ELSE c

to_uppercase(s) == [i \in DOMAIN s |-> UpperChar(s[i])]

\* str::split_whitespace: the maximal runs of characters that are not white
RECURSIVE SplitFrom(_, _, _)
SplitFrom(s, cur, acc) ==
    IF s = <<>> THEN (IF cur = <<>> THEN acc ELSE Append(acc, cur))
    ELSE IF IsWhitespace(Head(s))
         THEN SplitFrom(Tail(s), <<>>, IF cur = <<>> THEN acc ELSE Append(acc, cur))
         ELSE SplitFrom(Tail(s), Append(cur, Head(s)), acc)

split_whitespace(s) == SplitFrom(s, <<>>, <<>>)

DigitValue(c) == (CHOOSE i \in DOMAIN Digits : Digits[i] = c) - 1

IsDigit(c) == \E i \in DOMAIN Digits : Digits[i] = c

RECURSIVE Pow10(_)
Pow10(n) == IF n = 0 THEN 1 ELSE 10 * Pow10(n - 1)

RECURSIVE DigitsValue(_)
DigitsValue(d) ==
    IF d = <<>> THEN 0 ELSE 10 * DigitsValue(SubSeq(d, 1, Len(d) - 1)) + DigitValue(d[Len(d)])

\* The exponent of a float literal: an optional sign and at least one digit;
\* <<>> when it is malformed
parse_exponent(e) ==
    LET neg == e # <<>> /\ Head(e) = "-"
        d == IF e # <<>> /\ Head(e) \in {"-", "+"} THEN Tail(e) ELSE e
    IN IF d # <<>> /\ \A i \in DOMAIN d : IsDigit(d[i])
       THEN <<IF neg THEN 0 - DigitsValue(d) ELSE DigitsValue(d)>>
       ELSE <<>>

\* str::parse::<f64>: an optional sign, then "inf", "infinity" or "nan" in
\* any letter case, or digits with at most one point and at least one digit,
\* optionally followed by e or E and an exponent.  A finite value is
\* num / den, negated when neg; <<>> models Err.
parse_f64(tok) ==
    LET neg == tok # <<>> /\ Head(tok) = "-"
        body == ToLowercase(IF tok # <<>> /\ Head(tok) \in {"-", "+"} THEN Tail(tok) ELSE tok)
        es == {i \in DOMAIN body : body[i] = "e"}
        epos == IF es = {} THEN Len(body) + 1 ELSE CHOOSE i \in es : \A j \in es : i <= j
        mantissa == SubSeq(body, 1, epos - 1)
        exponent == IF es = {} THEN <<0>> ELSE parse_exponent(SubSeq(body, epos + 1, Len(body)))
        points == {i \in DOMAIN mantissa : mantissa[i] = "."}
        digits == SelectSeq(mantissa, IsDigit)
        den == IF points = {} THEN 1
               ELSE Pow10(Len(mantissa) - (CHOOSE i \in points : TRUE))
    IN IF body \in {<<"i","n","f">>, <<"i","n","f","i","n","i","t","y">>}
       THEN <<[kind |-> "inf", neg |-> neg, num |-> 0, den |-> 1]>>
       ELSE IF body = <<"n","a","n">>
       THEN <<[kind |-> "nan", neg |-> neg, num |-> 0, den |-> 1]>>
       ELSE IF /\ \A i \in DOMAIN mantissa : IsDigit(mantissa[i]) \/ mantissa[i] = "."
               /\ Cardinality(points) <= 1
               /\ digits # <<>>
               /\ exponent # <<>>
       THEN <<[kind |-> "finite",
               neg |-> neg,
               num |-> IF exponent[1] >= 0 THEN DigitsValue(digits) * Pow10(exponent[1])
                       ELSE DigitsValue(digits),
               den |-> IF exponent[1] >= 0 THEN den ELSE den * Pow10(0 - exponent[1])]>>
       ELSE <<>>

\* (nilai * pengali as f64) as u64: the cast truncates toward zero and
\* saturates: NaN and every negative value give 0, +infinity gives u64::MAX
\* (the finite numerals in reach stay far below u64::MAX)
KaliSebagaiU64(nilai, pengali) ==
    IF nilai.kind = "nan" \/ nilai.neg THEN ByteCount(0, 0)
    ELSE IF nilai.kind = "inf" THEN U64_MAX
    ELSE IF pengali >= BYTES_PER_MB
    THEN WholeOfMb(nilai.num * (pengali \div BYTES_PER_MB), nilai.den)
    ELSE LET q == (nilai.num * pengali) \div nilai.den
         IN ByteCount(q \div BYTES_PER_MB, q % BYTES_PER_MB)

\* A conversion with decimal multiples in place of the binary ones
convert_desimal(nilai, unit) ==
    CASE unit = <<"B">> -> <<KaliSebagaiU64(nilai, 1)>>
      [] unit = <<"K", "B">> -> <<KaliSebagaiU64(nilai, 1000)>>
      [] unit = <<"M", "B">> -> <<KaliSebagaiU64(nilai, 1000 * 1000)>>
      [] unit = <<"G", "B">> -> <<KaliSebagaiU64(nilai, 1000 * 1000 * 1000)>>
      [] OTHER -> <<>>

\* scan.rs: convert_dengan_unit
convert_dengan_unit(nilai, unit) ==
    CASE unit = <<"B">> -> <<KaliSebagaiU64(nilai, 1)>>
      [] unit = <<"K", "B">> -> <<KaliSebagaiU64(nilai, BYTES_PER_KB)>>
      [] unit = <<"M", "B">> -> <<KaliSebagaiU64(nilai, BYTES_PER_MB)>>
      [] unit = <<"G", "B">> -> <<KaliSebagaiU64(nilai, BYTES_PER_GB)>>
      [] OTHER -> <<>>

\* scan.rs: parse_angka_tanpa_unit (a bare number is taken as MB)
parse_angka_tanpa_unit(angka_string) ==
    LET nilai == parse_f64(angka_string)
    IN IF nilai = <<>> THEN <<>> ELSE <<KaliSebagaiU64(nilai[1], BYTES_PER_MB)>>

\* scan.rs: parse_angka_dengan_unit
parse_angka_dengan_unit(angka_string, unit) ==
    LET nilai == parse_f64(angka_string)
    IN IF nilai = <<>> THEN <<>> ELSE convert_dengan_unit(nilai[1], unit)

\* scan.rs: parse_human_input_to_bytes; <<>> models None
parse_human_input_to_bytes(input_string) ==
    LET input_bersih == to_uppercase(Trim(input_string))
        bagian_input == split_whitespace(input_bersih)
    IN IF input_bersih = <<>> THEN <<>>
       ELSE CASE Len(bagian_input) = 1 -> parse_angka_tanpa_unit(bagian_input[1])
              [] Len(bagian_input) = 2 ->
                    parse_angka_dengan_unit(bagian_input[1], bagian_input[2])
              [] OTHER -> <<>>

\* main.rs: parse_human_input_to_bytes; with two or more parts the first is
\* the number and the second the unit
main_parse_human_input_to_bytes(text) ==
    LET s == to_uppercase(Trim(text))
        parts == split_whitespace(s)
    IN IF s = <<>> THEN <<>>
       ELSE IF Len(parts) = 1
       THEN LET n == parse_f64(parts[1])
            IN IF n = <<>> THEN <<>> ELSE <<KaliSebagaiU64(n[1], 1024 * 1024)>>
       ELSE LET value == parse_f64(parts[1])
            IN IF value = <<>> THEN <<>>
               ELSE CASE parts[2] = <<"B">> -> <<KaliSebagaiU64(value[1], 1)>>
                      [] parts[2] = <<"K", "B">> -> <<KaliSebagaiU64(value[1], 1024)>>
                      [] parts[2] = <<"M", "B">> -> <<KaliSebagaiU64(value[1], 1024 * 1024)>>
                      [] parts[2] = <<"G", "B">> ->
                            <<KaliSebagaiU64(value[1], 1024 * 1024 * 1024)>>
                      [] OTHER -> <<>>

\* Option<u64>::unwrap_or(0)
UnwrapOr0(opt) == IF opt = <<>> THEN ByteCount(0, 0) ELSE opt[1]

\* scan.rs: parse_filter_option
parse_filter_option(opsi, custom) ==
    CASE opsi = "100 MB" -> Mul(100, BYTES_PER_MB)
      [] opsi = "500 MB" -> Mul(500, BYTES_PER_MB)
      [] opsi = "1 GB" -> Mul(1, BYTES_PER_GB)
      [] opsi = "5 GB" -> Mul(5, BYTES_PER_GB)
      [] opsi = "Custom" ->
            IF custom = <<>> THEN ByteCount(0, 0)
            ELSE UnwrapOr0(parse_human_input_to_bytes(custom[1]))
      [] OTHER -> ByteCount(0, 0)

\* main.rs: parse_filter_option
main_parse_filter_option(opt, custom_text) ==
    CASE opt = "> 100 MB" -> Mul(100, 1024 * 1024)
      [] opt = "> 500 MB" -> Mul(500, 1024 * 1024)
      [] opt = "> 1 GB" -> Mul(1, 1024 * 1024 * 1024)
      [] opt = "> 5 GB" -> Mul(5, 1024 * 1024 * 1024)
      [] opt = "Custom" ->
            IF custom_text = <<>> THEN ByteCount(0, 0)
            ELSE UnwrapOr0(main_parse_human_input_to_bytes(custom_text[1]))
      [] OTHER -> ByteCount(0, 0)

\* Labels a caller can pass: those of the combo boxes and some that are not
LabelSamples ==
    {"100 MB", "500 MB", "1 GB", "5 GB", "Custom",
     "> 100 MB", "> 500 MB", "> 1 GB", "> 5 GB",
     "", "1GB", "100 mb", "custom", "10 GB"}

CustomChars == {"1", ".", "-", " ", "k", "b"}

CustomSamples == SeqsUpTo(CustomChars, MaxCustomLen)

NoBytes == ByteCount(-1, 0)

InitFilter ==
    /\ \/ /\ opsi_filter \in LabelSamples
          /\ teks_custom \in {<<>>, <<<<"1">>>>}
       \/ /\ opsi_filter = "Custom"
          /\ teks_custom \in {<<t>> : t \in CustomSamples}
    /\ bytes_scan = NoBytes
    /\ bytes_main = NoBytes

FilterIdle ==
    /\ opsi_filter = ""
    /\ teks_custom = <<>>
    /\ bytes_scan = NoBytes
    /\ bytes_main = NoBytes

\* Both implementations are called on the same arguments
ParseFilterOption ==
    /\ bytes_scan = NoBytes
    /\ bytes_scan' = parse_filter_option(opsi_filter, teks_custom)
    /\ bytes_main' = main_parse_filter_option(opsi_filter, teks_custom)
    /\ UNCHANGED <<opsi_filter, teks_custom, nama_file, kunci_ekstensi, parseVars>>
    /\ UNCHANGED outsidePure

\* ------------------------------------------------------------------------
\* parse_human_input_to_bytes on texts made of tokens, white space between
\* them and white space around them
\* ------------------------------------------------------------------------
NumberTokens ==
    {<<"0">>, <<"1","5","0">>, <<"1",".","5">>, <<"0",".","5">>, <<"-","1">>,
     <<"1","e","1">>, <<"n","a","n">>, <<"i","n","f">>}

UnitTokens ==
    {<<"B">>, <<"K","B">>, <<"M","B">>, <<"G","B">>, <<"g","b">>, <<"K","b">>, <<"X","B">>}

OtherTokens == {<<"x">>, <<"1",".","2",".","3">>}

TokenSamples == NumberTokens \cup UnitTokens \cup OtherTokens

Separators == {<<" ">>, <<"\t", " ">>}

Paddings == {<<>>, <<" ">>}

RECURSIVE Join(_, _)
Join(tokens, sep) ==
    IF tokens = <<>> THEN <<>>
    ELSE IF Len(tokens) = 1 THEN tokens[1]
    ELSE tokens[1] \o sep \o Join(Tail(tokens), sep)

\* The text with these tokens, this separator and this padding on both sides
TextOf(tokens, sep, pad) == pad \o Join(tokens, sep) \o pad

NotParsed == <<NoBytes>>

InitParse ==
    /\ token_input \in SeqsUpTo(TokenSamples, MaxTokens)
    /\ teks_input \in {TextOf(token_input, sep, pad) : sep \in Separators, pad \in Paddings}
    /\ parsed_scan = NotParsed
    /\ parsed_main = NotParsed

ParseIdle ==
    /\ token_input = <<>>
    /\ teks_input = <<>>
    /\ parsed_scan = NotParsed
    /\ parsed_main = NotParsed

\* Both implementations are called on the same text
ParseHumanInput ==
    /\ parsed_scan = NotParsed
    /\ parsed_scan' = parse_human_input_to_bytes(teks_input)
    /\ parsed_main' = main_parse_human_input_to_bytes(teks_input)
    /\ UNCHANGED <<token_input, teks_input, nama_file, kunci_ekstensi, opsi_filter, teks_custom,
                   bytes_scan, bytes_main>>
    /\ UNCHANGED outsidePure

\* No free-standing function has been called
PureIdle == EkstrakIdle /\ FilterIdle /\ ParseIdle

\* .map(ekstrak_ekstensi_file) on both names
EkstrakEkstensi ==
    /\ kunci_ekstensi = <<>>
    /\ kunci_ekstensi' = [i \in DOMAIN nama_file |-> ekstrak_ekstensi_file(nama_file[i])]
    /\ UNCHANGED <<nama_file, opsi_filter, teks_custom, bytes_scan, bytes_main, parseVars>>
    /\ UNCHANGED outsidePure

\* ------------------------------------------------------------------------
\* The file system while scan_folder runs: the metadata lookups of the size
\* pass and of the filter pass come after the walk, and other programs can
\* delete or rewrite a listed file in between.
\* ------------------------------------------------------------------------
LookupPhases == {"size", "fold", "reduce", "filter"}

\* A listed file is deleted: fs::metadata on its path fails from now on
FileVanishes ==
    /\ pc \in LookupPhases
    /\ changes < MaxChanges
    /\ \E i \in DOMAIN tree :
         /\ tree[i].kind = "file"
         /\ tree[i].readable
         /\ tree' = [tree EXCEPT ![i].readable = FALSE]
    /\ changes' = changes + 1
    /\ UNCHANGED <<ukuran_minimum_bytes, pc, daftar_path_file, total_ukuran, partials,
                   jumlah_per_ekstensi, daftar_file_terfilter, hasil, tree_walked>>
    /\ UNCHANGED outsideLive

\* A listed file is truncated or appended to: its length changes
FileRewritten ==
    /\ pc \in LookupPhases
    /\ changes < MaxChanges
    /\ \E i \in DOMAIN tree, n \in 0..MaxSize :
         /\ tree[i].kind = "file"
         /\ tree[i].readable
         /\ tree[i].size # n
         /\ tree' = [tree EXCEPT ![i].size = n]
    /\ changes' = changes + 1
    /\ UNCHANGED <<ukuran_minimum_bytes, pc, daftar_path_file, total_ukuran, partials,
                   jumlah_per_ekstensi, daftar_file_terfilter, hasil, tree_walked>>
    /\ UNCHANGED outsideLive

\* ------------------------------------------------------------------------
\* serde_json on FolderStats (derive(Serialize, Deserialize), scan.rs 9-21).
\* A document is a sequence of tokens; the lexing of numbers and of string
\* escapes is not modelled, the structure is.
\* ------------------------------------------------------------------------
P(c) == [t |-> c, n |-> 0, v |-> <<>>]        \* punctuation, white space or junk
StrTok(v) == [t |-> "str", n |-> 0, v |-> v]
NumTok(n) == [t |-> "num", n |-> n, v |-> <<>>]

IsWsTok(tok) == tok.t \in {" ", "\n", "\t", "\r"}

JNum(n) == [k |-> "num", v |-> n]
JStr(v) == [k |-> "str", v |-> v]
JArr(v) == [k |-> "arr", v |-> v]
JObj(v) == [k |-> "obj", v |-> v]    \* members in document order: <<key, value>>

Str(name) == CASE name = "total_size" -> <<"t","s">>
               [] name = "total_files" -> <<"t","f">>
               [] name = "extension_count" -> <<"e","c">>
               [] name = "filtered_files" -> <<"f","f">>
               [] name = "path" -> <<"p">>
               [] name = "size" -> <<"s">>
               [] OTHER -> <<"o">>

\* Serialize: a struct is an object with its fields in declaration order, a
\* tuple and a Vec are arrays.
SerFileEntry(e) ==
    JObj(<< <<Str("path"), JStr(e.path)>>, <<Str("size"), JNum(e.size)>> >>)

SerFolderStats(st) ==
    JObj(<< <<Str("total_size"), JNum(st.total_size)>>,
            <<Str("total_files"), JNum(st.total_files)>>,
            <<Str("extension_count"),
              JArr([i \in DOMAIN st.extension_count |->
                      JArr(<<JStr(st.extension_count[i][1]), JNum(st.extension_count[i][2])>>)])>>,
            <<Str("filtered_files"),
              JArr([i \in DOMAIN st.filtered_files |-> SerFileEntry(st.filtered_files[i])])>> >>)

RECURSIVE Emit(_)
RECURSIVE EmitElems(_, _)
RECURSIVE EmitMembers(_, _)
Emit(j) ==
    CASE j.k = "num" -> <<NumTok(j.v)>>
      [] j.k = "str" -> <<StrTok(j.v)>>
      [] j.k = "arr" -> <<P("[")>> \o EmitElems(j.v, 1) \o <<P("]")>>
      [] j.k = "obj" -> <<P("{")>> \o EmitMembers(j.v, 1) \o <<P("}")>>
EmitElems(vs, i) ==
    IF i > Len(vs) THEN <<>>
    ELSE (IF i > 1 THEN <<P(",")>> ELSE <<>>) \o Emit(vs[i]) \o EmitElems(vs, i + 1)
EmitMembers(ms, i) ==
    IF i > Len(ms) THEN <<>>
    ELSE (IF i > 1 THEN <<P(",")>> ELSE <<>>)
         \o <<StrTok(ms[i][1]), P(":")>> \o Emit(ms[i][2]) \o EmitMembers(ms, i + 1)

\* serde_json::to_string
to_string(st) == Emit(SerFolderStats(st))

\* Parsing results
Fail(e) == [ok |-> FALSE, err |-> e]
Good(v, r) == [ok |-> TRUE, val |-> v, rest |-> r]

RECURSIVE SkipWs(_)
SkipWs(s) == IF s # <<>> /\ IsWsTok(Head(s)) THEN SkipWs(Tail(s)) ELSE s

Peek(s, c) == SkipWs(s) # <<>> /\ Head(SkipWs(s)).t = c

\* The JSON grammar: value, array elements, object members
RECURSIVE ParseValue(_)
RECURSIVE ParseElems(_, _)
RECURSIVE ParseMembers(_, _)
ParseValue(s0) ==
    LET s == SkipWs(s0) IN
    IF s = <<>> THEN Fail("EOF while parsing a value")
    ELSE CASE Head(s).t = "num" -> Good(JNum(Head(s).n), Tail(s))
           [] Head(s).t = "str" -> Good(JStr(Head(s).v), Tail(s))
           [] Head(s).t = "[" ->
                IF Peek(Tail(s), "]") THEN Good(JArr(<<>>), Tail(SkipWs(Tail(s))))
                ELSE ParseElems(Tail(s), <<>>)
           [] Head(s).t = "{" ->
                IF Peek(Tail(s), "}") THEN Good(JObj(<<>>), Tail(SkipWs(Tail(s))))
                ELSE ParseMembers(Tail(s), <<>>)
           [] OTHER -> Fail("expected value")
ParseElems(s, acc) ==
    LET v == ParseValue(s) IN
    IF ~v.ok THEN v
    ELSE LET r == SkipWs(v.rest) IN
         IF r = <<>> THEN Fail("EOF while parsing a list")
         ELSE IF Head(r).t = "," THEN ParseElems(Tail(r), Append(acc, v.val))
         ELSE IF Head(r).t = "]" THEN Good(JArr(Append(acc, v.val)), Tail(r))
         ELSE Fail("expected comma or ]")
ParseMembers(s0, acc) ==
    LET s == SkipWs(s0) IN
    IF s = <<>> THEN Fail("EOF while parsing an object")
    ELSE IF Head(s).t # "str" THEN Fail("key must be a string")
    ELSE LET c == SkipWs(Tail(s)) IN
         IF c = <<>> THEN Fail("EOF while parsing an object")
         ELSE IF Head(c).t # ":" THEN Fail("expected colon")
         ELSE LET v == ParseValue(Tail(c)) IN
              IF ~v.ok THEN v
              ELSE LET r == SkipWs(v.rest)
                       more == Append(acc, <<Head(s).v, v.val>>) IN
                   IF r = <<>> THEN Fail("EOF while parsing an object")
                   ELSE IF Head(r).t = "," THEN ParseMembers(Tail(r), more)
                   ELSE IF Head(r).t = "}" THEN Good(JObj(more), Tail(r))
                   ELSE Fail("expected comma or }")

\* Deserialize for the field types
DeU64(j) == IF j.k = "num" /\ j.v >= 0 THEN Good(j.v, <<>>) ELSE Fail("invalid type")

DeString(j) == IF j.k = "str" THEN Good(j.v, <<>>) ELSE Fail("invalid type")

Members(j, key) == {i \in DOMAIN j.v : j.v[i][1] = key}

Member(j, key) == j.v[CHOOSE i \in Members(j, key) : TRUE][2]

\* A derived struct visitor: every field once (a repeated one is an error, a
\* missing one is an error, an unknown one is ignored); an array of the
\* fields in declaration order is accepted as well.
StructShape(j, fields) ==
    IF j.k = "obj"
    THEN IF \E f \in DOMAIN fields : Cardinality(Members(j, fields[f])) > 1
         THEN Fail("duplicate field")
         ELSE IF \E f \in DOMAIN fields : Members(j, fields[f]) = {}
         THEN Fail("missing field")
         ELSE Good([f \in DOMAIN fields |-> Member(j, fields[f])], <<>>)
    ELSE IF j.k = "arr"
    THEN IF Len(j.v) < Len(fields) THEN Fail("invalid length")
         ELSE IF Len(j.v) > Len(fields) THEN Fail("trailing characters")
         ELSE Good(j.v, <<>>)
    ELSE Fail("invalid type")

\* (String, usize)
DeExtensionPair(j) ==
    IF j.k # "arr" THEN Fail("invalid type")
    ELSE IF Len(j.v) # 2 THEN Fail("invalid length")
    ELSE IF ~DeString(j.v[1]).ok \/ ~DeU64(j.v[2]).ok THEN Fail("invalid type")
    ELSE Good(<<j.v[1].v, j.v[2].v>>, <<>>)

\* A FileEntry visitor that leaves size at its default
DeFileEntry_tanpa_ukuran(j) ==
    LET sh == StructShape(j, <<Str("path"), Str("size")>>) IN
    IF ~sh.ok THEN sh
    ELSE IF ~DeString(sh.val[1]).ok \/ ~DeU64(sh.val[2]).ok THEN Fail("invalid type")
    ELSE Good([path |-> sh.val[1].v, size |-> 0], <<>>)

DeFileEntry(j) ==
    LET sh == StructShape(j, <<Str("path"), Str("size")>>) IN
    IF ~sh.ok THEN sh
    ELSE IF ~DeString(sh.val[1]).ok \/ ~DeU64(sh.val[2]).ok THEN Fail("invalid type")
    ELSE Good([path |-> sh.val[1].v, size |-> sh.val[2].v], <<>>)

DeFolderStats(j) ==
    LET sh == StructShape(j, <<Str("total_size"), Str("total_files"),
                               Str("extension_count"), Str("filtered_files")>>) IN
    IF ~sh.ok THEN sh
    ELSE IF ~DeU64(sh.val[1]).ok \/ ~DeU64(sh.val[2]).ok THEN Fail("invalid type")
    ELSE IF sh.val[3].k # "arr" \/ sh.val[4].k # "arr" THEN Fail("invalid type")
    ELSE IF \E i \in DOMAIN sh.val[3].v : ~DeExtensionPair(sh.val[3].v[i]).ok
         THEN Fail("invalid type")
    ELSE IF \E i \in DOMAIN sh.val[4].v : ~DeFileEntry(sh.val[4].v[i]).ok
         THEN Fail("invalid type")
    ELSE Good([total_size |-> sh.val[1].v,
               total_files |-> sh.val[2].v,
               extension_count |-> [i \in DOMAIN sh.val[3].v |-> DeExtensionPair(sh.val[3].v[i]).val],
               filtered_files |-> [i \in DOMAIN sh.val[4].v |-> DeFileEntry(sh.val[4].v[i]).val]],
              <<>>)

\* A from_str that stops after the first value
from_str_tanpa_cek_akhir(text) ==
    LET v == ParseValue(text) IN
    IF ~v.ok THEN v ELSE DeFolderStats(v.val)

\* serde_json::from_str::<FolderStats>: one value, then only white space
from_str(text) ==
    LET v == ParseValue(text) IN
    IF ~v.ok THEN v
    ELSE LET d == DeFolderStats(v.val) IN
         IF ~d.ok THEN d
         ELSE IF SkipWs(v.rest) # <<>> THEN Fail("trailing characters")
         ELSE d

\* ------------------------------------------------------------------------
\* Processes: std::process and the executables a path can name
\* ------------------------------------------------------------------------
WorkerFlag == <<"-","-","w","o","r","k","e","r">>

\* exe_path names nothing, a file that may not be executed, the executable
\* built from this repository, or some other executable.
ExeKinds == {"missing", "denied", "self", "program"}

Launchable(e) == e \in {"self", "program"}

IoError(e) == IF e = "missing" THEN "No such file or directory (os error 2)"
              ELSE "Permission denied (os error 13)"

Exited(code) == [kind |-> "exit", code |-> code]
Signaled == [kind |-> "signal", code |-> 9]
Running == [kind |-> "running", code |-> 0]

\* ExitStatus::success
success(status) == status.kind = "exit" /\ status.code = 0

Err(msg) == [tag |-> "Err", msg |-> msg]
OkUnit == [tag |-> "Ok"]

NewProcess(image, argv) ==
    [image |-> image, argv |-> argv, status |-> Running,
     stdout |-> <<>>, wrote |-> "nothing", stderr |-> <<>>]

\* The directory the folder argument names, and the scans it can give
SampleTree ==
    << RootDir,
       [kind |-> "file", name |-> <<"a",".","T","X","T">>, readable |-> TRUE, size |-> 1],
       DirItem,
       [kind |-> "file", name |-> <<"R","E","A","D","M","E">>, readable |-> TRUE, size |-> 0] >>

FolderSample == <<"/","d">>

\* scan_folder run to its end on one thread: the set holds one FolderStats per
\* order in which the HashMap can be iterated.
ScanResults(fs, ukuran_minimum) ==
    LET daftar == collect_semua_file_paths(fs)
        total == SumSeq([i \in DOMAIN daftar |-> ambil_ukuran_file(fs, daftar[i])])
        map_ekstensi == FoldSplit(EmptyMap,
                           [i \in DOMAIN daftar |-> ekstrak_ekstensi_file(fs[daftar[i]].name)])
    IN {[total_size |-> total,
         total_files |-> Len(daftar),
         extension_count |-> urut,
         filtered_files |-> FilterSplit(fs, daftar, ukuran_minimum)]
          : urut \in konversi_dan_urutkan_map_ekstensi(map_ekstensi)}

EmptyStats == [total_size |-> 0, total_files |-> 0,
               extension_count |-> <<>>, filtered_files |-> <<>>]

\* A FolderStats value that no scan produces: counts out of order, a key and
\* a path twice, totals unrelated to the lists
ForeignStats ==
    [total_size |-> 7, total_files |-> 0,
     extension_count |-> << <<<<"t","x","t">>, 1>>, <<<<"t","x","t">>, 2>>, <<<<>>, 0>> >>,
     filtered_files |-> << [path |-> <<"b">>, size |-> 3], [path |-> <<"b">>, size |-> 0] >>]

StatsSamples ==
    {EmptyStats, ForeignStats} \cup {CHOOSE st \in ScanResults(SampleTree, 0) : TRUE}

DropMember(j, i) == JObj(SubSeq(j.v, 1, i - 1) \o SubSeq(j.v, i + 1, Len(j.v)))

Reverse(s) == [i \in DOMAIN s |-> s[Len(s) + 1 - i]]

\* What an executable can write to standard output, with the shape of it
OutputsFor(st) ==
    LET j == SerFolderStats(st)
        doc == Emit(j)
    IN {[wrote |-> "document", bytes |-> doc],
        [wrote |-> "document", bytes |-> doc \o <<P("\n")>>],
        [wrote |-> "document", bytes |-> <<P(" ")>> \o doc \o <<P("\n"), P(" ")>>],
        [wrote |-> "document", bytes |-> Emit(JObj(Reverse(j.v)))],
        [wrote |-> "document", bytes |-> Emit(JObj(j.v \o << <<Str("other"), JNum(1)>> >>))],
        [wrote |-> "document", bytes |-> Emit(JArr([i \in DOMAIN j.v |-> j.v[i][2]]))],
        [wrote |-> "trailing", bytes |-> doc \o <<P("x")>>],
        [wrote |-> "trailing", bytes |-> doc \o <<P("\n")>> \o doc],
        [wrote |-> "trailing", bytes |-> doc \o <<P("\n"), P("}")>>],
        [wrote |-> "malformed", bytes |-> <<P("x")>> \o doc],
        [wrote |-> "malformed", bytes |-> doc \o <<P(InvalidUnit)>>],
        [wrote |-> "malformed", bytes |-> Emit(JObj(j.v \o <<j.v[1]>>))],
        [wrote |-> "malformed", bytes |-> Emit(JObj(<< <<Str("total_size"), JNum(-1)>> >> \o Tail(j.v)))],
        [wrote |-> "malformed", bytes |-> Emit(JObj(<< <<Str("total_size"), JStr(<<"1">>)>> >> \o Tail(j.v)))]}
       \cup {[wrote |-> "malformed", bytes |-> SubSeq(doc, 1, k)] : k \in {1, Len(doc) \div 2, Len(doc) - 1}}
       \cup {[wrote |-> "missing", bytes |-> Emit(DropMember(j, i))] : i \in DOMAIN j.v}

ProgramOutputs ==
    {[wrote |-> "empty", bytes |-> <<>>],
     [wrote |-> "empty", bytes |-> <<P("\n")>>],
     [wrote |-> "malformed", bytes |-> <<P("x")>>]}
    \cup UNION {OutputsFor(st) : st \in StatsSamples}

ErrTexts == SeqsUpTo({" ", "\n", "e", InvalidUnit}, MaxErrLen)

Statuses == {Exited(0), Exited(1), Signaled}

MinBytesSamples == {0, 1048576}

ShellArgvs == SeqsUpTo({WorkerFlag, FolderSample, ToDecimal(0)}, MaxArgs)

\* ------------------------------------------------------------------------
\* src/main.rs: the entry point of the executable
\* ------------------------------------------------------------------------
\* What GLib may print while Application::run handles the command line
MainDiagnostics == {<<>>, <<"e","\n">>}

\* fn main: builds the Application, runs it, drops the value run returns and
\* returns (), so the process ends with status 0.  The argument vector is
\* never inspected and nothing is written to standard output.
main(proc, diagnostic) ==
    [proc EXCEPT !.status = Exited(0), !.stderr = diagnostic]

\* ------------------------------------------------------------------------
\* src/ipc.rs
\* ------------------------------------------------------------------------
\* A launch whose failure is reported with the text of a failed exit status
spawn_dengan_pesan_exit(exe, folder_arg, min_bytes_arg) ==
    [ok |-> Launchable(exe),
     argv |-> <<WorkerFlag, folder_arg, ToDecimal(min_bytes_arg)>>,
     err |-> Err(<<"Worker process gagal: ", IoError(exe)>>)]

\* Command::new(exe_path).arg("--worker").arg(folder).arg(min_bytes.to_string())
\* .output().map_err(..): the argument vector, and whether the launch works
spawn_worker_process(exe, folder_arg, min_bytes_arg) ==
    [ok |-> Launchable(exe),
     argv |-> <<WorkerFlag, folder_arg, ToDecimal(min_bytes_arg)>>,
     err |-> Err(<<"Gagal menjalankan worker process: ", IoError(exe)>>)]

NoOutput == [status |-> Exited(0), stdout |-> <<>>, stderr |-> <<>>]

\* A validation that reports standard error untrimmed
validate_tanpa_trim(out) ==
    IF success(out.status) THEN OkUnit
    ELSE Err(<<"Worker process gagal: ">> \o from_utf8_lossy(out.stderr))

validate_worker_success(out) ==
    IF success(out.status) THEN OkUnit
    ELSE LET error_message == Trim(from_utf8_lossy(out.stderr))
         IN Err(<<"Worker process gagal: ">> \o error_message)

LossyTok(tok) == IF tok.t = InvalidUnit THEN P(Replacement) ELSE tok

\* A decoder that accepts whatever follows the first document
parse_tanpa_cek_akhir(stdout) ==
    LET json_string == [i \in DOMAIN stdout |-> LossyTok(stdout[i])]
        r == from_str_tanpa_cek_akhir(json_string)
    IN IF r.ok THEN OkStats(r.val)
       ELSE Err(<<"Output JSON tidak valid dari worker: ", r.err>>)

parse_worker_output(stdout) ==
    LET json_string == [i \in DOMAIN stdout |-> LossyTok(stdout[i])]
        r == from_str(json_string)
    IN IF r.ok THEN OkStats(r.val)
       ELSE Err(<<"Output JSON tidak valid dari worker: ", r.err>>)

\* run_worker_scan is called on a worker thread, or the executable is started
\* directly with some argument vector.
InitIpc ==
    /\ folder = FolderSample
    /\ \/ /\ ipc_pc = "spawn"
          /\ exe_path \in ExeKinds
          /\ min_bytes \in MinBytesSamples
          /\ procs = <<>>
       \/ /\ ipc_pc = "idle"
          /\ exe_path = "self"
          /\ min_bytes = 0
          /\ \E argv \in ShellArgvs : procs = <<NewProcess("self", argv)>>
    /\ output = NoOutput
    /\ ipc_hasil = NoResult
    /\ ipc_trace = <<>>

IpcIdle ==
    /\ folder = FolderSample
    /\ ipc_pc = "idle"
    /\ exe_path = "self"
    /\ min_bytes = 0
    /\ procs = <<>>
    /\ output = NoOutput
    /\ ipc_hasil = NoResult
    /\ ipc_trace = <<>>

\* let output = spawn_worker_process(exe_path, folder, min_bytes)?;  the
\* launch: a failure returns from run_worker_scan at once.
SpawnWorkerProcess ==
    /\ ipc_pc = "spawn"
    /\ ipc_trace' = Append(ipc_trace, "spawn_worker_process")
    /\ LET r == spawn_worker_process(exe_path, folder, min_bytes) IN
       IF r.ok
       THEN /\ procs' = Append(procs, NewProcess(exe_path, r.argv))
            /\ ipc_pc' = "wait"
            /\ UNCHANGED ipc_hasil
       ELSE /\ ipc_hasil' = r.err
            /\ ipc_pc' = "done"
            /\ UNCHANGED procs
    /\ UNCHANGED <<exe_path, folder, min_bytes, output>>
    /\ UNCHANGED outsideIpc

\* Some other executable runs to its end, or is terminated by a signal
ProgramExit ==
    /\ \E p \in DOMAIN procs :
         /\ procs[p].image = "program"
         /\ procs[p].status = Running
         /\ \E st \in Statuses, out \in ProgramOutputs, err \in ErrTexts :
              procs' = [procs EXCEPT ![p] = [@ EXCEPT !.status = st, !.stdout = out.bytes,
                                                    !.wrote = out.wrote, !.stderr = err]]
    /\ UNCHANGED <<exe_path, folder, min_bytes, ipc_pc, output, ipc_hasil, ipc_trace>>
    /\ UNCHANGED outsideIpc

\* The executable of this repository runs main to its end
MainExit ==
    /\ \E p \in DOMAIN procs :
         /\ procs[p].image = "self"
         /\ procs[p].status = Running
         /\ \E diagnostic \in MainDiagnostics :
              procs' = [procs EXCEPT ![p] = main(procs[p], diagnostic)]
    /\ UNCHANGED <<exe_path, folder, min_bytes, ipc_pc, output, ipc_hasil, ipc_trace>>
    /\ UNCHANGED outsideIpc

\* Command::output returns once the child has exited, with all it wrote
OutputCollected ==
    /\ ipc_pc = "wait"
    /\ procs[Len(procs)].status # Running
    /\ output' = [status |-> procs[Len(procs)].status,
                  stdout |-> procs[Len(procs)].stdout,
                  stderr |-> procs[Len(procs)].stderr]
    /\ ipc_pc' = "validate"
    /\ UNCHANGED <<exe_path, folder, min_bytes, procs, ipc_hasil, ipc_trace>>
    /\ UNCHANGED outsideIpc

\* A validation step that launches the worker again after a failed exit
ValidateDenganRetry ==
    /\ ipc_pc = "validate"
    /\ ipc_trace' = Append(ipc_trace, "validate_worker_success")
    /\ LET r == validate_worker_success(output) IN
       IF r.tag = "Ok"
       THEN /\ ipc_pc' = "parse"
            /\ UNCHANGED ipc_hasil
       ELSE /\ ipc_pc' = IF Len(procs) < 2 THEN "spawn" ELSE "done"
            /\ ipc_hasil' = IF Len(procs) < 2 THEN ipc_hasil ELSE r
    /\ UNCHANGED <<exe_path, folder, min_bytes, procs, output>>
    /\ UNCHANGED outsideIpc

\* validate_worker_success(&output)?;
ValidateWorkerSuccess ==
    /\ ipc_pc = "validate"
    /\ ipc_trace' = Append(ipc_trace, "validate_worker_success")
    /\ LET r == validate_worker_success(output) IN
       IF r.tag = "Ok"
       THEN /\ ipc_pc' = "parse"
            /\ UNCHANGED ipc_hasil
       ELSE /\ ipc_hasil' = r
            /\ ipc_pc' = "done"
    /\ UNCHANGED <<exe_path, folder, min_bytes, procs, output>>
    /\ UNCHANGED outsideIpc

\* parse_worker_output(&output.stdout)
ParseWorkerOutput ==
    /\ ipc_pc = "parse"
    /\ ipc_trace' = Append(ipc_trace, "parse_worker_output")
    /\ ipc_hasil' = parse_worker_output(output.stdout)
    /\ ipc_pc' = "done"
    /\ UNCHANGED <<exe_path, folder, min_bytes, procs, output>>
    /\ UNCHANGED outsideIpc

NextIpc ==
    \/ SpawnWorkerProcess
    \/ ProgramExit
    \/ MainExit
    \/ OutputCollected
    \/ ValidateWorkerSuccess
    \/ ParseWorkerOutput

ScanIdle ==
    /\ tree = SampleTree
    /\ ukuran_minimum_bytes = 0
    /\ pc = "idle"
    /\ daftar_path_file = <<>>
    /\ total_ukuran = 0
    /\ partials = <<>>
    /\ jumlah_per_ekstensi = <<>>
    /\ daftar_file_terfilter = <<>>
    /\ hasil = NoResult
    /\ tree_walked = tree
    /\ changes = 0

\* ------------------------------------------------------------------------
\* The window: the calculate button, the worker thread and the polling
\* handler (src/ui.rs 480-794; the same handlers are written inline in
\* src/main.rs 513-635, where the thread calls scan_folder itself).
\* ------------------------------------------------------------------------
Label(kind, text) == [kind |-> kind, text |-> text]

Dash == Label("dash", <<>>)
Busy == Label("busy", <<>>)

\* humansize CONVENTIONAL: a length below 1024 is printed whole with unit B
format_bytes(jumlah_bytes) ==
    CASE jumlah_bytes < 1024 -> ToDecimal(jumlah_bytes) \o <<" ", "B">>

\* files.sort_by(|a, b| b.size.cmp(&a.size)): stable, descending by size
RECURSIVE InsertBySize(_, _)
InsertBySize(sorted, e) ==
    IF sorted = <<>> THEN <<e>>
    ELSE IF Head(sorted).size >= e.size
         THEN <<Head(sorted)>> \o InsertBySize(Tail(sorted), e)
         ELSE <<e>> \o sorted

RECURSIVE urutkan_files_by_size(_)
urutkan_files_by_size(files) ==
    IF files = <<>> THEN <<>>
    ELSE InsertBySize(urutkan_files_by_size(SubSeq(files, 1, Len(files) - 1)),
                      files[Len(files)])

\* format!("{} : {} file", ekstensi, jumlah), one row per entry
populate_extension_list(extension_count) ==
    [i \in DOMAIN extension_count |->
       extension_count[i][1] \o <<" ", ":", " ">> \o ToDecimal(extension_count[i][2])
          \o <<" ", "f", "i", "l", "e">>]

\* format!("{} ({})", path, format_bytes(size)), largest file first
populate_file_list(filtered_files) ==
    LET files_terurut == urutkan_files_by_size(filtered_files) IN
    [i \in DOMAIN files_terurut |->
       files_terurut[i].path \o <<" ", "(">> \o format_bytes(files_terurut[i].size) \o <<")">>]

\* A display routine that sets the two labels and leaves the lists as they are
tampilkan_label_saja(stats, widgets) ==
    [total_label |-> Label("value", format_bytes(stats.total_size)),
     count_label |-> Label("value", ToDecimal(stats.total_files)),
     ext_list |-> widgets.ext_list,
     file_list |-> widgets.file_list]

\* tampilkan_stats_berhasil: both labels, then both lists cleared and refilled
tampilkan_stats_berhasil(stats, widgets) ==
    [total_label |-> Label("value", format_bytes(stats.total_size)),
     count_label |-> Label("value", ToDecimal(stats.total_files)),
     ext_list |-> populate_extension_list(stats.extension_count),
     file_list |-> populate_file_list(stats.filtered_files)]

\* A display of an error that also empties the two lists
tampilkan_error_dan_kosongkan(pesan_error, widgets) ==
    [total_label |-> Dash,
     count_label |-> Label("error", pesan_error),
     ext_list |-> <<>>,
     file_list |-> <<>>]

\* tampilkan_error: "Total size: -" and "Error: {pesan_error}"; the lists are
\* not touched
tampilkan_error(pesan_error, widgets) ==
    [total_label |-> Dash,
     count_label |-> Label("error", pesan_error),
     ext_list |-> widgets.ext_list,
     file_list |-> widgets.file_list]

tampilkan_hasil(pesan, widgets) ==
    IF pesan.tag = "Ok" THEN tampilkan_stats_berhasil(pesan.stats, widgets)
    ELSE tampilkan_error(pesan.msg, widgets)

Widgets == [total_label |-> total_label, count_label |-> count_label,
            ext_list |-> ext_list, file_list |-> file_list]

\* The window as build_ui leaves it
UiIdle ==
    /\ channel = <<>>
    /\ total_label = Dash
    /\ count_label = Dash
    /\ ext_list = <<>>
    /\ file_list = <<>>
    /\ spinner = FALSE
    /\ dimulai = 0
    /\ terkirim = 0
    /\ diterima = <<>>

NoIsian == [entry_path |-> <<>>, filter_combo |-> "", custom_entry |-> <<>>]

\* No press of the button yet
WindowIdle ==
    /\ program = "ui"
    /\ isian = NoIsian
    /\ ditekan = 0
    /\ threads = <<>>
    /\ polling = TRUE

PathStatuses == {"Valid", "Kosong", "TidakValid"}

\* StatusValidasiPath::pesan_error
pesan_error(status) ==
    IF status = "Kosong" THEN "(masukkan path dulu)" ELSE "(path tidak valid)"

\* handle_button_hitung_click (ui.rs): an empty or invalid path only changes
\* the labels; a valid one starts the spinner, shows "Menghitung..." and
\* spawns the thread that calls run_worker_scan on current_exe().  The model
\* keeps one such thread at a time.
handle_button_hitung_click ==
    /\ \E status \in PathStatuses :
         IF status = "Valid"
         THEN /\ ipc_pc = "idle"
              /\ dimulai < MaxScans
              /\ \E ukuran_minimum \in MinBytesSamples : min_bytes' = ukuran_minimum
              /\ spinner' = TRUE
              /\ total_label' = Busy
              /\ count_label' = Busy
              /\ exe_path' = "self"
              /\ ipc_pc' = "spawn"
              /\ procs' = <<>>
              /\ output' = NoOutput
              /\ ipc_hasil' = NoResult
              /\ ipc_trace' = <<>>
              /\ dimulai' = dimulai + 1
         ELSE /\ total_label' = Dash
              /\ count_label' = Label("invalid", pesan_error(status))
              /\ UNCHANGED <<min_bytes, spinner, exe_path, ipc_pc, procs, output,
                             ipc_hasil, ipc_trace, dimulai>>
    /\ UNCHANGED <<folder, channel, ext_list, file_list, terkirim, diterima>>
    /\ UNCHANGED <<scanVars, liveVars, pureVars, windowVars>>

\* The closure of calc_btn.connect_clicked (main.rs): the same handler, with
\* a thread that calls scan_folder in this process.
calc_btn_clicked ==
    /\ \E status \in PathStatuses :
         IF status = "Valid"
         THEN /\ pc = "idle"
              /\ dimulai < MaxScans
              /\ \E min_size_bytes \in Thresholds : ukuran_minimum_bytes' = min_size_bytes
              /\ spinner' = TRUE
              /\ total_label' = Busy
              /\ count_label' = Busy
              /\ pc' = "collect"
              /\ dimulai' = dimulai + 1
         ELSE /\ total_label' = Dash
              /\ count_label' = Label("invalid", pesan_error(status))
              /\ UNCHANGED <<ukuran_minimum_bytes, spinner, pc, dimulai>>
    /\ UNCHANGED <<tree, daftar_path_file, total_ukuran, partials, jumlah_per_ekstensi,
                   daftar_file_terfilter, hasil>>
    /\ UNCHANGED <<channel, ext_list, file_list, terkirim, diterima>>
    /\ UNCHANGED <<ipcVars, liveVars, pureVars, windowVars>>

\* The thread of spawn_worker_thread after run_worker_scan has returned:
\* let _ = pengirim.send(hasil_scan), and the thread ends.
KirimHasilWorker ==
    /\ ipc_pc = "done"
    /\ channel' = Append(channel, ipc_hasil)
    /\ terkirim' = terkirim + 1
    /\ ipc_pc' = "idle"
    /\ UNCHANGED <<exe_path, folder, min_bytes, procs, output, ipc_hasil, ipc_trace>>
    /\ UNCHANGED <<total_label, count_label, ext_list, file_list, spinner, dimulai, diterima>>
    /\ UNCHANGED <<scanVars, liveVars, pureVars, windowVars>>

\* The thread of main.rs after scan_folder has returned: let _ = tx_bg.send(res)
KirimHasilScan ==
    /\ pc = "done"
    /\ channel' = Append(channel, hasil)
    /\ terkirim' = terkirim + 1
    /\ pc' = "idle"
    /\ UNCHANGED <<tree, ukuran_minimum_bytes, daftar_path_file, total_ukuran, partials,
                   jumlah_per_ekstensi, daftar_file_terfilter, hasil>>
    /\ UNCHANGED <<total_label, count_label, ext_list, file_list, spinner, dimulai, diterima>>
    /\ UNCHANGED <<ipcVars, liveVars, pureVars, windowVars>>

\* The senders there would be if only the threads owned one
SendersOfThreads == Cardinality({i \in DOMAIN threads : threads[i].hasil = NoResult})

\* Senders of the channel that are alive: the one the closure of the button
\* owns for as long as the window exists, and the clone of every thread that
\* has not ended
SendersAlive == 1 + Cardinality({i \in DOMAIN threads : threads[i].hasil = NoResult})

\* Receiver::try_recv: the oldest message, else Disconnected when no sender
\* is left, else Empty
try_recv(ch, senders) ==
    IF ch # <<>> THEN [tag |-> "Ok", hasil |-> Head(ch)]
    ELSE IF senders = 0 THEN [tag |-> "Disconnected", hasil |-> NoResult]
    ELSE [tag |-> "Empty", hasil |-> NoResult]

\* handle_channel_message, every 100 ms on the main loop while the source is
\* installed.  A message: the spinner stops and the whole result is shown by
\* tampilkan_hasil before the handler returns Continue(true).  Empty: nothing
\* changes.  Disconnected: the spinner stops, the count label reports it and
\* Continue(false) removes the source.
handle_channel_message ==
    /\ polling
    /\ LET diterima_sekarang == try_recv(channel, SendersAlive)
           shown == tampilkan_hasil(diterima_sekarang.hasil, Widgets)
       IN CASE diterima_sekarang.tag = "Ok" ->
                 /\ channel' = Tail(channel)
                 /\ diterima' = Append(diterima, diterima_sekarang.hasil)
                 /\ spinner' = FALSE
                 /\ total_label' = shown.total_label
                 /\ count_label' = shown.count_label
                 /\ ext_list' = shown.ext_list
                 /\ file_list' = shown.file_list
                 /\ UNCHANGED polling
            [] diterima_sekarang.tag = "Empty" ->
                 UNCHANGED <<channel, diterima, spinner, total_label, count_label,
                             ext_list, file_list, polling>>
            [] diterima_sekarang.tag = "Disconnected" ->
                 /\ spinner' = FALSE
                 /\ count_label' = Label("error", <<"worker disconnected">>)
                 /\ polling' = FALSE
                 /\ UNCHANGED <<channel, diterima, total_label, ext_list, file_list>>
    /\ UNCHANGED <<dimulai, terkirim, program, isian, ditekan, threads>>
    /\ UNCHANGED <<scanVars, ipcVars, liveVars, pureVars>>

\* ------------------------------------------------------------------------
\* The window with any number of scans in flight: the button is never
\* disabled, so every press with a valid path spawns one more thread
\* ------------------------------------------------------------------------
\* The disk the window runs on: one directory and one regular file in it
FileSample == FolderSample \o <<"/", "a", ".", "T", "X", "T">>

exists(path) == path \in {FolderSample, FileSample}

is_dir(path) == path = FolderSample

Status(status, path) == [status |-> status, path |-> path]

\* A validation that asks only whether the path exists
validasi_tanpa_is_dir(text_path) ==
    LET path_bersih == Trim(text_path) IN
    IF path_bersih = <<>> THEN Status("Kosong", <<>>)
    ELSE IF exists(path_bersih) THEN Status("Valid", path_bersih)
    ELSE Status("TidakValid", <<>>)

\* ui.rs: StatusValidasiPath::validasi
validasi(text_path) ==
    LET path_bersih == Trim(text_path) IN
    IF path_bersih = <<>> THEN Status("Kosong", <<>>)
    ELSE IF exists(path_bersih) /\ is_dir(path_bersih) THEN Status("Valid", path_bersih)
    ELSE Status("TidakValid", <<>>)

\* main.rs: the two tests of the closure; the path is the text as typed
main_validasi(text) ==
    IF Trim(text) = <<>> THEN Status("Kosong", <<>>)
    ELSE IF ~exists(text) \/ ~is_dir(text) THEN Status("TidakValid", <<>>)
    ELSE Status("Valid", text)

\* ui.rs: OpsiFilterUkuran::dari_string; an option is written as its ke_string
dari_string(text) ==
    IF text \in {"100 MB", "500 MB", "1 GB", "5 GB", "Custom"} THEN <<text>> ELSE <<>>

\* A resolution that falls back to the first option when the text is unusable
ke_minimum_bytes_atau_seratus(opsi, custom_text) ==
    CASE opsi = "100 MB" -> Mul(100, 1024 * 1024)
      [] opsi = "500 MB" -> Mul(500, 1024 * 1024)
      [] opsi = "1 GB" -> Mul(1, 1024 * 1024 * 1024)
      [] opsi = "5 GB" -> Mul(5, 1024 * 1024 * 1024)
      [] opsi = "Custom" ->
            LET text == Trim(IF custom_text = <<>> THEN <<>> ELSE custom_text[1])
                bytes == parse_human_input_to_bytes(text)
            IN IF bytes = <<>> THEN Mul(100, 1024 * 1024) ELSE bytes[1]

\* ui.rs: OpsiFilterUkuran::ke_minimum_bytes
ke_minimum_bytes(opsi, custom_text) ==
    CASE opsi = "100 MB" -> Mul(100, 1024 * 1024)
      [] opsi = "500 MB" -> Mul(500, 1024 * 1024)
      [] opsi = "1 GB" -> Mul(1, 1024 * 1024 * 1024)
      [] opsi = "5 GB" -> Mul(5, 1024 * 1024 * 1024)
      [] opsi = "Custom" ->
            LET text == Trim(IF custom_text = <<>> THEN <<>> ELSE custom_text[1])
            IN parse_filter_option("Custom", <<text>>)

\* ui.rs: hitung_ukuran_minimum_bytes; active_text is <<>> when the combo has
\* no active row
hitung_ukuran_minimum_bytes(active_text, teks_entry) ==
    LET text_aktif == IF active_text = <<>> THEN "100 MB" ELSE active_text[1]
        opsi == IF dari_string(text_aktif) = <<>> THEN "100 MB"
                ELSE dari_string(text_aktif)[1]
    IN ke_minimum_bytes(opsi, <<teks_entry>>)

\* What the user can have typed into the path entry
PathSamples ==
    {<<>>, <<" ">>, FolderSample, <<" ">> \o FolderSample, FileSample, <<"n", "x">>}

\* What the custom entry can hold
CustomTexts == {<<>>, <<" ">>, <<"x">>, <<"1", " ", "X", "B">>, <<"1", " ", "B">>}

\* The active row of the combo and the custom entry, in each window
FilterSamples(window) ==
    {[filter_combo |-> IF window = "ui" THEN "100 MB" ELSE "> 100 MB", custom_entry |-> <<>>]}
    \cup [filter_combo : {"Custom"}, custom_entry : CustomTexts]

Isian(text_path, filter) ==
    [entry_path |-> text_path, filter_combo |-> filter.filter_combo,
     custom_entry |-> filter.custom_entry]

\* A threshold as scan_folder compares it with the sizes of the sample files
SebagaiUkuran(bytes) ==
    IF bytes.tb = 0 /\ bytes.mb = 0 /\ bytes.b <= MaxSize THEN bytes.b ELSE MaxSize + 1

\* What scan_folder can return for a folder that holds the one sample file,
\* and what run_worker_scan can: the same through the child, or an error
HasilScan(ukuran_minimum) ==
    {OkStats(st) : st \in ScanResults(SubSeq(SampleTree, 1, 2), SebagaiUkuran(ukuran_minimum))}

HasilWorker(ukuran_minimum) ==
    HasilScan(ukuran_minimum) \cup {Err(<<"Worker process gagal: ", "e">>)}

Thread(ukuran_minimum) == [ukuran_minimum |-> ukuran_minimum, hasil |-> NoResult, urutan |-> 0]

\* The handler of the button, given the outcome of the validation and the
\* threshold: jalankan_worker_scan for a valid path (spinner, both labels,
\* one thread), tampilkan_pesan_validasi_error otherwise
Tekan(text_path, filter, status, ukuran_minimum) ==
    /\ ditekan < MaxPresses
    /\ ditekan' = ditekan + 1
    /\ isian' = Isian(text_path, filter)
    /\ IF status.status = "Valid"
       THEN /\ spinner' = TRUE
            /\ total_label' = Busy
            /\ count_label' = Busy
            /\ threads' = Append(threads, Thread(ukuran_minimum))
            /\ dimulai' = dimulai + 1
       ELSE /\ total_label' = Dash
            /\ count_label' = Label("invalid", pesan_error(status.status))
            /\ UNCHANGED <<spinner, threads, dimulai>>
    /\ UNCHANGED <<channel, ext_list, file_list, terkirim, diterima, program, polling>>
    /\ UNCHANGED <<scanVars, ipcVars, liveVars, pureVars>>

\* ui.rs: the closure setup_button_hitung connects to the button
setup_button_hitung ==
    /\ program = "ui"
    /\ \E text_path \in PathSamples, filter \in FilterSamples("ui") :
          Tekan(text_path, filter, validasi(text_path),
                hitung_ukuran_minimum_bytes(<<filter.filter_combo>>, filter.custom_entry))

\* main.rs: the closure build_ui connects to the button
build_ui_connect_clicked ==
    /\ program = "main"
    /\ \E text \in PathSamples, filter \in FilterSamples("main") :
          Tekan(text, filter, main_validasi(text),
                main_parse_filter_option(filter.filter_combo, <<filter.custom_entry>>))

\* The end of a thread: its one send, with what its scan returned
Kirim(i, hasil_scan) ==
    /\ threads[i].hasil = NoResult
    /\ threads' = [threads EXCEPT ![i] = [@ EXCEPT !.hasil = hasil_scan,
                                                    !.urutan = terkirim + 1]]
    /\ channel' = Append(channel, hasil_scan)
    /\ terkirim' = terkirim + 1
    /\ UNCHANGED <<total_label, count_label, ext_list, file_list, spinner, dimulai, diterima,
                   program, isian, ditekan, polling>>
    /\ UNCHANGED <<scanVars, ipcVars, liveVars, pureVars>>

\* ui.rs: the closure of spawn_worker_thread, after run_worker_scan returned
spawn_worker_thread ==
    /\ program = "ui"
    /\ \E i \in DOMAIN threads :
          \E hasil_scan \in HasilWorker(threads[i].ukuran_minimum) : Kirim(i, hasil_scan)

\* main.rs: the closure of thread::spawn, after scan_folder returned
build_ui_thread ==
    /\ program = "main"
    /\ \E i \in DOMAIN threads :
          \E res \in HasilScan(threads[i].ukuran_minimum) : Kirim(i, res)

\* Either window, just built
InitWindow ==
    /\ program \in {"ui", "main"}
    /\ isian = NoIsian
    /\ ditekan = 0
    /\ threads = <<>>
    /\ polling = TRUE

\* ------------------------------------------------------------------------
\* Properties of scan_folder
\* ------------------------------------------------------------------------
Done == pc = "done"

TraversedFiles == {i \in DOMAIN tree : tree[i].kind = "file"}

KeyOf(i) == ekstrak_ekstensi_file(tree[i].name)

Counts(extension_count) == [j \in DOMAIN extension_count |-> extension_count[j][2]]

CountUnder(extension_count, key) ==
    SumSeq([j \in DOMAIN extension_count |->
              IF extension_count[j][1] = key THEN extension_count[j][2] ELSE 0])

RECURSIVE SumOver(_, _)
SumOver(S, f) ==
    IF S = {} THEN 0
    ELSE LET x == CHOOSE y \in S : TRUE IN f[x] + SumOver(S \ {x}, f)

PathOf(i) == PathString(tree, i)

Listed(i) == \E j \in DOMAIN hasil.stats.filtered_files :
                hasil.stats.filtered_files[j].path = PathOf(i)

\* C1: in every returned FolderStats the counts of extension_count add up
\* to total_files.
C1_SumOfCountsIsTotalFiles ==
    Done => SumSeq(Counts(hasil.stats.extension_count)) = hasil.stats.total_files

C1_Witness ==
    /\ Done
    /\ hasil.stats.total_files = 3
    /\ Len(hasil.stats.extension_count) = 2

\* C2: a traversed file is listed in filtered_files exactly when its
\* metadata was readable and its size is at least the threshold (a file of
\* exactly the threshold is listed, one byte less is not, threshold 0 lists
\* every readable file, a threshold above every size lists nothing), each
\* listed entry is a traversed file with its size, and none is listed twice.
C2_FilteredIffReadableAndAtLeastThreshold ==
    Done =>
      LET ff == hasil.stats.filtered_files IN
      /\ \A i \in TraversedFiles :
            Listed(i) <=> (tree[i].readable /\ tree[i].size >= ukuran_minimum_bytes)
      /\ \A j \in DOMAIN ff :
            \E i \in TraversedFiles : ff[j] = [path |-> PathOf(i), size |-> tree[i].size]
      /\ \A j, k \in DOMAIN ff : ff[j].path = ff[k].path => j = k
      /\ \A i \in TraversedFiles :
            (tree[i].readable /\ tree[i].size = ukuran_minimum_bytes) => Listed(i)
      /\ \A i \in TraversedFiles :
            (tree[i].readable /\ tree[i].size = ukuran_minimum_bytes - 1) => ~Listed(i)
      /\ ukuran_minimum_bytes = 0 =>
            \A i \in TraversedFiles : tree[i].readable => Listed(i)
      /\ (\A i \in TraversedFiles : tree[i].size < ukuran_minimum_bytes) => ff = <<>>

C2_Witness ==
    /\ Done
    /\ ukuran_minimum_bytes >= 1
    /\ \E i, j \in TraversedFiles :
          /\ tree[i].readable /\ tree[i].size = ukuran_minimum_bytes /\ Listed(i)
          /\ tree[j].readable /\ tree[j].size = ukuran_minimum_bytes - 1 /\ ~Listed(j)
    /\ \E d \in DOMAIN tree : tree[d].kind # "file"

\* C3: whatever the splits of the three parallel passes and whatever the
\* order of the merges, total_size, total_files and the (extension, count)
\* entries are those of the file list itself; the fold step and the merge
\* step are commutative and associative on the partial maps that occur.
C3_PartitionIndependent ==
    /\ pc = "reduce" =>
          /\ \A a, b \in DOMAIN partials : a < b =>
                gabungkan_map_ekstensi(partials[a], partials[b])
                   = gabungkan_map_ekstensi(partials[b], partials[a])
          /\ \A a, b, c \in DOMAIN partials : (a < b /\ b < c) =>
                gabungkan_map_ekstensi(gabungkan_map_ekstensi(partials[a], partials[b]), partials[c])
                   = gabungkan_map_ekstensi(partials[a], gabungkan_map_ekstensi(partials[b], partials[c]))
          /\ \A i, j \in TraversedFiles : i < j =>
                tambahkan_ekstensi_ke_map(tambahkan_ekstensi_ke_map(partials[1], KeyOf(i)), KeyOf(j))
                   = tambahkan_ekstensi_ke_map(tambahkan_ekstensi_ke_map(partials[1], KeyOf(j)), KeyOf(i))
    /\ Done =>
          /\ hasil.stats.total_files = Cardinality(TraversedFiles)
          /\ hasil.stats.total_size =
                SumOver(TraversedFiles, [i \in TraversedFiles |-> ambil_ukuran_file(tree, i)])
          /\ {hasil.stats.extension_count[j] : j \in DOMAIN hasil.stats.extension_count}
                = {<<key, Cardinality({i \in TraversedFiles : KeyOf(i) = key})>> :
                     key \in {KeyOf(i) : i \in TraversedFiles}}
          /\ Len(hasil.stats.extension_count)
                = Cardinality({KeyOf(i) : i \in TraversedFiles})

C3_Witness ==
    /\ pc = "reduce"
    /\ Len(partials) = 3
    /\ \E a, b \in DOMAIN partials : a # b /\ DOMAIN partials[a] = DOMAIN partials[b]
    /\ \E a, b \in DOMAIN partials : DOMAIN partials[a] # DOMAIN partials[b]

\* C4: a traversed file whose metadata lookup fails is counted in
\* total_files and under its extension, adds nothing to total_size and is
\* not listed in filtered_files at any threshold, 0 included; total_size is
\* the sum of the sizes of the files whose metadata was readable.
C4_UnreadableCountedButNotSized ==
    Done =>
      /\ hasil.stats.total_files = Cardinality(TraversedFiles)
      /\ hasil.stats.total_size =
            SumOver({i \in TraversedFiles : tree[i].readable},
                    [i \in TraversedFiles |-> tree[i].size])
      /\ \A i \in TraversedFiles :
            ~tree[i].readable =>
               /\ ~Listed(i)
               /\ CountUnder(hasil.stats.extension_count, KeyOf(i))
                     = Cardinality({k \in TraversedFiles : KeyOf(k) = KeyOf(i)})

C4_Witness ==
    /\ Done
    /\ ukuran_minimum_bytes = 0
    /\ \E i, j \in TraversedFiles :
          /\ ~tree[i].readable /\ tree[i].size > 0
          /\ tree[j].readable /\ tree[j].size > 0 /\ Listed(j)


\* ------------------------------------------------------------------------
\* Properties of run_worker_scan and of the executable
\* ------------------------------------------------------------------------
Dispatched == ipc_pc # "idle"

Child == procs[1]

\* t is s without its leading and trailing white space
IsTrimmedOf(t, s) ==
    /\ t # <<>> => ~IsWhitespace(t[1]) /\ ~IsWhitespace(t[Len(t)])
    /\ \E a \in 1..(Len(s) + 1) :
          /\ a + Len(t) - 1 <= Len(s)
          /\ t = SubSeq(s, a, a + Len(t) - 1)
          /\ \A i \in 1..Len(s) : (i < a \/ i > a + Len(t) - 1) => IsWhitespace(s[i])

\* The number a sequence of decimal digits denotes
RECURSIVE DecimalValue(_)
DecimalValue(d) ==
    IF d = <<>> THEN 0
    ELSE DecimalValue(SubSeq(d, 1, Len(d) - 1)) * 10
         + ((CHOOSE i \in DOMAIN Digits : Digits[i] = d[Len(d)]) - 1)

IsDecimalOf(d, n) ==
    /\ d # <<>>
    /\ \A i \in DOMAIN d : \E k \in DOMAIN Digits : Digits[k] = d[i]
    /\ Len(d) > 1 => d[1] # "0"
    /\ DecimalValue(d) = n

\* C5: when the child ends with a non-success status (a non-zero code or a
\* signal), output decoding is never reached and run_worker_scan returns an
\* error whose text is the failure prefix followed by the child's standard
\* error, decoded, without its leading and trailing white space, whatever
\* the child wrote to standard output.
C5_NonSuccessGivesTrimmedStderr ==
    (Dispatched /\ procs # <<>> /\ Child.status # Running /\ ~success(Child.status)) =>
       /\ ipc_pc # "parse"
       /\ ipc_hasil.tag # "Ok"
       /\ ipc_pc = "done" =>
             /\ ipc_hasil.tag = "Err"
             /\ ipc_hasil.msg[1] = "Worker process gagal: "
             /\ IsTrimmedOf(Tail(ipc_hasil.msg), from_utf8_lossy(Child.stderr))

C5_Witness ==
    /\ ipc_pc = "done"
    /\ procs # <<>>
    /\ Child.status = Signaled
    /\ Child.wrote = "document"
    /\ Child.stderr = <<"\n", "e", " ">>
    /\ ipc_hasil = Err(<<"Worker process gagal: ", "e">>)

\* C6: when the executable cannot be launched, run_worker_scan returns the
\* launch-failure error, no process exists, no FolderStats is ever returned,
\* and neither the exit-status validation nor the decoding is entered.
C6_LaunchFailureIsAnError ==
    (Dispatched /\ ~Launchable(exe_path)) =>
       /\ ipc_pc \in {"spawn", "done"}
       /\ procs = <<>>
       /\ ipc_hasil.tag # "Ok"
       /\ ipc_pc = "done" =>
             /\ ipc_hasil.tag = "Err"
             /\ ipc_hasil.msg = <<"Gagal menjalankan worker process: ", IoError(exe_path)>>
             /\ ipc_trace = <<"spawn_worker_process">>

C6_Witness ==
    /\ ipc_pc = "done"
    /\ exe_path = "missing"
    /\ ipc_hasil.tag = "Err"

\* C7: when the child exits with status 0 and its standard output is empty,
\* malformed, lacks a field, or carries anything but white space after the
\* document, run_worker_scan returns the decoding error and no FolderStats.
C7_UndecodableOutputIsADecodeError ==
    (ipc_pc = "done" /\ procs # <<>> /\ success(Child.status)
       /\ Child.wrote \in {"nothing", "empty", "malformed", "missing", "trailing"}) =>
       /\ ipc_hasil.tag = "Err"
       /\ ipc_hasil.msg[1] = "Output JSON tidak valid dari worker: "
       /\ Len(ipc_hasil.msg) = 2

C7_Witness ==
    /\ ipc_pc = "done"
    /\ procs # <<>>
    /\ success(Child.status)
    /\ Child.wrote = "trailing"
    /\ ipc_hasil = Err(<<"Output JSON tidak valid dari worker: ", "trailing characters">>)

\* C8 as stated: every finished run_worker_scan has launched exactly one
\* child with the argument vector [--worker, root, decimal threshold], has
\* waited for it and has returned one outcome.
C8_ExactlyOneChildLaunched ==
    ipc_pc = "done" =>
       /\ Len(procs) = 1
       /\ Child.argv[1] = WorkerFlag
       /\ Child.argv[2] = folder
       /\ IsDecimalOf(Child.argv[3], min_bytes)
       /\ Child.status # Running
       /\ ipc_hasil.tag \in {"Ok", "Err"}

\* C8, amended: every run_worker_scan makes exactly one launch attempt, with
\* the argument vector [--worker, root, decimal threshold]; when the launch
\* succeeds there is exactly one child and the outcome is produced only
\* after it has exited, when the launch fails there is no child; one outcome
\* (Ok or Err) is returned, and no failure leads to a second launch.
C8_OneLaunchAttemptNoRetry ==
    Dispatched =>
       /\ Len(procs) <= 1
       /\ Len(SelectSeq(ipc_trace, LAMBDA f : f = "spawn_worker_process")) <= 1
       /\ procs # <<>> =>
             /\ Launchable(exe_path)
             /\ Len(Child.argv) = 3
             /\ Child.argv[1] = WorkerFlag
             /\ Child.argv[2] = folder
             /\ IsDecimalOf(Child.argv[3], min_bytes)
       /\ ipc_pc \in {"validate", "parse"} => (procs # <<>> /\ Child.status # Running)
       /\ ipc_pc # "done" => ipc_hasil = NoResult
       /\ ipc_pc = "done" =>
             /\ ipc_hasil.tag \in {"Ok", "Err"}
             /\ Len(SelectSeq(ipc_trace, LAMBDA f : f = "spawn_worker_process")) = 1
             /\ Launchable(exe_path) => (Len(procs) = 1 /\ Child.status # Running)
             /\ ~Launchable(exe_path) => procs = <<>>

C8_Witness ==
    /\ ipc_pc = "done"
    /\ Len(procs) = 1
    /\ Child.status = Exited(1)
    /\ Child.argv[3] = <<"1","0","4","8","5","7","6">>
    /\ ipc_hasil.tag = "Err"

\* C9: a scan dispatched to the program's own executable returns what
\* scan_folder returns in-process for the same root and threshold: the child
\* prints the serialized FolderStats as its only line and exits with 0.
C9_SubprocessEqualsInProcess ==
    (ipc_pc = "done" /\ exe_path = "self") =>
       /\ ipc_hasil.tag = "Ok"
       /\ ipc_hasil.stats \in ScanResults(tree, min_bytes)
       /\ Child.status = Exited(0)
       /\ \E st \in ScanResults(tree, min_bytes) : Child.stdout = to_string(st) \o <<P("\n")>>

\* C10: the executable started with --worker and fewer than 4 tokens in all
\* exits by itself with status 1, with a diagnostic on standard error and
\* nothing on standard output.
C10_ShortWorkerCommandLineIsUsageError ==
    \A p \in DOMAIN procs :
       (/\ procs[p].image = "self"
        /\ procs[p].status.kind = "exit"
        /\ Len(procs[p].argv) >= 1
        /\ procs[p].argv[1] = WorkerFlag
        /\ 1 + Len(procs[p].argv) < 4) =>
          /\ procs[p].status = Exited(1)
          /\ procs[p].stderr # <<>>
          /\ procs[p].stdout = <<>>

\* C11: for every FolderStats value S, when the child exits successfully with
\* the JSON serialization of S on standard output (followed or not by a line
\* end), run_worker_scan returns Ok with total_size, total_files,
\* extension_count in the same order and filtered_files entry by entry equal
\* to those of S.
SerializedOnStdout(S) ==
    /\ success(output.status)
    /\ output.stdout \in {to_string(S), to_string(S) \o <<P("\n")>>}

C11_DecodedStatsEqualSerialized ==
    \A S \in StatsSamples :
       (ipc_pc = "done" /\ procs # <<>> /\ SerializedOnStdout(S)) =>
          /\ ipc_hasil.tag = "Ok"
          /\ ipc_hasil.stats.total_size = S.total_size
          /\ ipc_hasil.stats.total_files = S.total_files
          /\ ipc_hasil.stats.extension_count = S.extension_count
          /\ Len(ipc_hasil.stats.filtered_files) = Len(S.filtered_files)
          /\ \A i \in DOMAIN S.filtered_files :
                /\ ipc_hasil.stats.filtered_files[i].path = S.filtered_files[i].path
                /\ ipc_hasil.stats.filtered_files[i].size = S.filtered_files[i].size

C11_Witness ==
    /\ ipc_pc = "done"
    /\ procs # <<>>
    /\ SerializedOnStdout(ForeignStats)
    /\ ipc_hasil = OkStats(ForeignStats)

\* C15: in every returned FolderStats, extension_count has at most one entry
\* per extension key, every count is at least 1, and every count is the
\* number of traversed files classified under its key.
C15_ExtensionEntriesUniqueAndExact ==
    Done =>
       LET ec == hasil.stats.extension_count IN
       /\ \A a, b \in DOMAIN ec : ec[a][1] = ec[b][1] => a = b
       /\ \A a \in DOMAIN ec :
             /\ ec[a][2] >= 1
             /\ ec[a][2] = Cardinality({i \in TraversedFiles : KeyOf(i) = ec[a][1]})

C15_Witness ==
    /\ Done
    /\ Len(hasil.stats.extension_count) = 2
    /\ \E a \in DOMAIN hasil.stats.extension_count : hasil.stats.extension_count[a][2] = 2

\* C16: in every returned FolderStats, extension_count is in non-increasing
\* order of count: of two adjacent entries the earlier count is >= the later.
C16_ExtensionCountsNonIncreasing ==
    Done =>
       \A j \in 1..(Len(hasil.stats.extension_count) - 1) :
          hasil.stats.extension_count[j][2] >= hasil.stats.extension_count[j + 1][2]

C16_Witness ==
    /\ Done
    /\ Len(hasil.stats.extension_count) = 2
    /\ hasil.stats.extension_count[1][2] > hasil.stats.extension_count[2][2]
    /\ hasil.stats.extension_count[1][1] = Unknown

NonFiles == {i \in DOMAIN tree : tree[i].kind # "file"}

\* C18: only items whose type is regular file contribute to the result:
\* directories, symbolic links and items that could not be read add nothing
\* to total_files, to total_size, to any extension count or to
\* filtered_files.
C18_OnlyRegularFilesContribute ==
    Done =>
       /\ hasil.stats.total_files = Len(tree) - Cardinality(NonFiles)
       /\ hasil.stats.total_size =
             SumOver({i \in DOMAIN tree : tree[i].kind = "file" /\ tree[i].readable},
                     [i \in DOMAIN tree |-> tree[i].size])
       /\ SumSeq(Counts(hasil.stats.extension_count)) = Len(tree) - Cardinality(NonFiles)
       /\ \A i \in NonFiles :
             /\ ~Listed(i)
             /\ CountUnder(hasil.stats.extension_count, KeyOf(i))
                   = Cardinality({k \in TraversedFiles : KeyOf(k) = KeyOf(i)})

C18_Witness ==
    /\ Done
    /\ \E i, j, k \in DOMAIN tree :
         /\ tree[i] = LinkItem
         /\ tree[j] = DirItem
         /\ tree[k].kind = "file"
         /\ KeyOf(k) = KeyOf(i)
    /\ hasil.stats.total_files = 1
    /\ CountUnder(hasil.stats.extension_count, <<"t","x","t">>) = 1

\* Two texts that differ at most in the case of their letters
SameUpToCase(x, y) ==
    /\ Len(x) = Len(y)
    /\ \A i \in DOMAIN x :
          \/ x[i] = y[i]
          \/ \E k \in DOMAIN UpperChars : {x[i], y[i]} = {UpperChars[k], LowerChars[k]}

Classified == kunci_ekstensi # <<>>

SameKeyForSameExtension ==
    (/\ HasExtension(nama_file[1])
     /\ HasExtension(nama_file[2])
     /\ SameUpToCase(PathExtension(nama_file[1]), PathExtension(nama_file[2])))
       => kunci_ekstensi[1] = kunci_ekstensi[2]

StatsFields == {"total_size", "total_files", "extension_count", "filtered_files"}

Vanished(i) == tree_walked[i].readable /\ ~tree[i].readable

\* C12: scan_folder never returns an error: whatever the root is and whatever
\* mix of unreadable items, broken links and files deleted or rewritten
\* during the scan, no statement of it returns early with an error, the
\* items that cannot be read are skipped, every regular file the walk yields (before or after
\* such an item) is counted, and the value returned is Ok with all four
\* fields of FolderStats.
C12_ScanNeverFails ==
    /\ hasil.tag \in {"none", "Ok"}
    /\ ~Done => pc \in {"collect", "size", "fold", "reduce", "filter", "return"}
    /\ Done =>
         /\ hasil.tag = "Ok"
         /\ DOMAIN hasil.stats = StatsFields
         /\ hasil.stats.total_files = Cardinality(TraversedFiles)
         /\ \A i \in TraversedFiles :
               CountUnder(hasil.stats.extension_count, KeyOf(i)) >= 1
         /\ \A j \in DOMAIN hasil.stats.filtered_files :
               \E i \in TraversedFiles : hasil.stats.filtered_files[j].path = PathOf(i)

C12_Witness ==
    /\ Done
    /\ hasil.tag = "Ok"
    /\ \E i, j, k \in DOMAIN tree :
         /\ i < j
         /\ tree[i].kind = "error"
         /\ tree[j].kind = "file"
         /\ tree[k].kind = "symlink"
         /\ Vanished(j)
    /\ hasil.stats.total_files = 1

\* C13: when the root does not exist or is not a directory (a regular file
\* included), scan_folder returns total_files = 0, total_size = 0 and two
\* empty lists, as for an empty directory, and no error.
C13_NonDirectoryRootScansAsEmpty ==
    (Done /\ tree[1] # RootDir) => hasil = OkStats(EmptyStats)

Range(f) == {f[i] : i \in DOMAIN f}

\* C14: the result of a scan is a function of the root, the threshold and the
\* file system as the walk saw it: it has the total_size, the total_files,
\* the extension counts (as a multiset) and the filtered files (as a set) of
\* a scan of that same state that nothing disturbed, whatever happens to the
\* files after the walk has collected the path list.
C14_ResultDependsOnlyOnWalkedState ==
    Done =>
       \E st \in ScanResults(tree_walked, ukuran_minimum_bytes) :
          /\ hasil.stats.total_size = st.total_size
          /\ hasil.stats.total_files = st.total_files
          /\ Range(hasil.stats.extension_count) = Range(st.extension_count)
          /\ Range(hasil.stats.filtered_files) = Range(st.filtered_files)

\* ------------------------------------------------------------------------
\* Claims about the window
\* ------------------------------------------------------------------------
\* Worker threads that have not sent their message yet
ThreadsRunning ==
    (IF pc = "idle" THEN 0 ELSE 1) + (IF ipc_pc = "idle" THEN 0 ELSE 1)

Messages == Range(channel) \cup Range(diterima)

\* What the window shows of the result of a scan
ShowsValue == total_label.kind = "value" \/ count_label.kind = "value"

\* C19: a scan makes its result visible only as one complete value at its
\* end: every worker thread sends exactly one message, after its scan has
\* returned; a message that carries a FolderStats carries all four fields,
\* and for a scan in this process it is the value scan_folder returned; and
\* whenever the window shows totals or list rows of a result, the two labels
\* and the two lists all come from one received FolderStats.
C19_ResultVisibleOnlyComplete ==
    /\ terkirim + ThreadsRunning = dimulai
    /\ Len(channel) + Len(diterima) = terkirim
    /\ \A m \in Messages :
          m.tag = "Ok" =>
             /\ DOMAIN m.stats = StatsFields
             /\ \E t \in Thresholds : m.stats \in ScanResults(tree, t)
    /\ (ShowsValue \/ ext_list # <<>> \/ file_list # <<>>) =>
          \E k \in DOMAIN diterima :
             /\ diterima[k].tag = "Ok"
             /\ ext_list = populate_extension_list(diterima[k].stats.extension_count)
             /\ file_list = populate_file_list(diterima[k].stats.filtered_files)
             /\ ShowsValue =>
                   /\ total_label = Label("value", format_bytes(diterima[k].stats.total_size))
                   /\ count_label = Label("value", ToDecimal(diterima[k].stats.total_files))

C19_Witness ==
    /\ terkirim = 2
    /\ Len(diterima) = 2
    /\ diterima[1].tag = "Err"
    /\ diterima[2].tag = "Ok"
    /\ total_label = Label("value", <<"1", " ", "B">>)
    /\ count_label = Label("value", <<"2">>)
    /\ Len(ext_list) = 2
    /\ Len(file_list) = 2

\* ------------------------------------------------------------------------
\* Claims about the size labels
\* ------------------------------------------------------------------------
\* C20: in every implementation of parse_filter_option, "100 MB" gives
\* 104857600 (100 * 1048576), "500 MB" gives 524288000 (500 * 1048576),
\* "1 GB" gives 1073741824 (1024 * 1048576), "5 GB" gives 5368709120
\* (5120 * 1048576), and a label that is none of these and not "Custom"
\* gives 0.
NamedBucket(label) ==
    CASE label = "100 MB" -> ByteCount(100, 0)
      [] label = "500 MB" -> ByteCount(500, 0)
      [] label = "1 GB" -> ByteCount(1024, 0)
      [] label = "5 GB" -> ByteCount(5120, 0)
      [] OTHER -> ByteCount(0, 0)

C20_NamedLabelsResolveInEveryImplementation ==
    (bytes_scan # NoBytes /\ opsi_filter # "Custom") =>
       /\ bytes_scan = NamedBucket(opsi_filter)
       /\ bytes_main = NamedBucket(opsi_filter)

\* ------------------------------------------------------------------------
\* Claims about parse_human_input_to_bytes
\* ------------------------------------------------------------------------
\* The numbers the sample tokens write as an integer or a decimal: num / den,
\* negated when neg
NumberValues ==
    {[tok |-> <<"0">>, neg |-> FALSE, num |-> 0, den |-> 1],
     [tok |-> <<"1","5","0">>, neg |-> FALSE, num |-> 150, den |-> 1],
     [tok |-> <<"1",".","5">>, neg |-> FALSE, num |-> 15, den |-> 10],
     [tok |-> <<"0",".","5">>, neg |-> FALSE, num |-> 5, den |-> 10],
     [tok |-> <<"-","1">>, neg |-> TRUE, num |-> 1, den |-> 1],
     [tok |-> <<"1","e","1">>, neg |-> FALSE, num |-> 10, den |-> 1]}

\* The units in any letter case, each with the exponent of its power of two
UnitValues ==
    {[tok |-> <<"B">>, exp |-> 0], [tok |-> <<"K","B">>, exp |-> 10],
     [tok |-> <<"M","B">>, exp |-> 20], [tok |-> <<"G","B">>, exp |-> 30],
     [tok |-> <<"g","b">>, exp |-> 30], [tok |-> <<"K","b">>, exp |-> 10]}

NumberOf(tok) == CHOOSE n \in NumberValues : n.tok = tok

UnitOf(tok) == CHOOSE u \in UnitValues : u.tok = tok

IsNumber(tok) == \E n \in NumberValues : n.tok = tok

IsUnit(tok) == \E u \in UnitValues : u.tok = tok

\* The whole part of (num / den) * 2^exp
Magnitude(n, exp) ==
    CASE exp = 0 -> ByteCount(0, n.num \div n.den)
      [] exp = 10 -> ByteCount(0, (n.num * 1024) \div n.den)
      [] exp = 20 -> WholeOfMb(n.num, n.den)
      [] exp = 30 -> WholeOfMb(n.num * 1024, n.den)

\* value * 2^exp truncated toward zero; below zero it is no byte count
TruncatedTowardZero(n, exp) ==
    LET m == Magnitude(n, exp)
    IN IF n.neg /\ m # ByteCount(0, 0)
       THEN [tb |-> 0 - m.tb, mb |-> 0 - m.mb, b |-> 0 - m.b]
       ELSE m

\* The same for a value that is not negative, and 0 for a negative one
TruncatedOrZero(n, exp) == IF n.neg THEN ByteCount(0, 0) ELSE Magnitude(n, exp)

Parsed == parsed_scan # NotParsed

OneNumber == Len(token_input) = 1 /\ IsNumber(token_input[1])

NumberAndUnit ==
    Len(token_input) = 2 /\ IsNumber(token_input[1]) /\ IsUnit(token_input[2])

TheExamples ==
    /\ teks_input = <<"1","5","0">> => parsed_scan = <<ByteCount(150, 0)>>
    /\ teks_input = <<"1",".","5"," ","G","B">> => parsed_scan = <<ByteCount(1536, 0)>>
    /\ teks_input = <<"0",".","5"," ","M","B">> => parsed_scan = <<ByteCount(0, 524288)>>
    /\ teks_input = <<"0"," ","B">> => parsed_scan = <<ByteCount(0, 0)>>

OtherShape ==
    \/ Len(token_input) = 0
    \/ Len(token_input) > 2
    \/ (Len(token_input) >= 1 /\ ~IsNumber(token_input[1]))
    \/ (Len(token_input) = 2 /\ ~IsUnit(token_input[2]))

\* C22: parse_human_input_to_bytes, in scan.rs and in main.rs, returns None
\* for the empty and the all-whitespace text, for more than two tokens, for
\* a first token that is not numeric and for an unrecognized unit.
C22_OtherShapesFail ==
    (Parsed /\ OtherShape) => (parsed_scan = <<>> /\ parsed_main = <<>>)

\* C29: parse_human_input_to_bytes of main.rs and parse_human_input_to_bytes
\* of scan.rs return the same result for every text, texts of three or more
\* tokens and single tokens that are no number included.
C29_BothImplementationsAgree ==
    Parsed => parsed_scan = parsed_main

\* ------------------------------------------------------------------------
\* Claims about the button, the threads and the poller
\* ------------------------------------------------------------------------
\* A press of the button is a step that counts one
Pressed == ditekan' = ditekan + 1

\* The path entry names an existing directory, as the window reads it: ui.rs
\* trims the text, main.rs takes it as typed
DirectoryTyped(form) ==
    IF program = "ui" THEN Trim(form.entry_path) = FolderSample
    ELSE form.entry_path = FolderSample

BlankTyped(form) == \A i \in DOMAIN form.entry_path : form.entry_path[i] \in {" ", "\t"}

\* "Custom" is selected and the custom text is absent or is no size
CustomUnusable(form) ==
    /\ form.filter_combo = "Custom"
    /\ form.custom_entry \in {<<>>, <<" ">>, <<"x">>, <<"1", " ", "X", "B">>}

\* C23: a press with a valid directory, "Custom" selected and a custom text
\* that is absent or unparseable is not refused and shows no error: it
\* spawns one thread, and that scan is given the threshold 0.
C23_UnusableCustomTextScansWithZero ==
    [][(Pressed /\ DirectoryTyped(isian') /\ CustomUnusable(isian')) =>
          /\ Len(threads') = Len(threads) + 1
          /\ threads'[Len(threads')].ukuran_minimum = ByteCount(0, 0)
          /\ threads'[Len(threads')].hasil = NoResult
          /\ spinner'
          /\ count_label' = Busy]_vars

C23_Witness ==
    /\ program = "ui"
    /\ isian = [entry_path |-> FolderSample, filter_combo |-> "Custom",
                custom_entry |-> <<"1", " ", "X", "B">>]
    /\ Len(threads) = 1
    /\ threads[1].ukuran_minimum = ByteCount(0, 0)
    /\ threads[1].hasil # NoResult

\* C24: a press with an empty or all-whitespace path, or with a path that is
\* not an existing directory, spawns no thread, sends nothing, does not
\* start the spinner, and sets the count label to "Total files: - (masukkan
\* path dulu)" in the first case and "Total files: - (path tidak valid)" in
\* the second, neither of which is the "Total files: 0" of a scan that found
\* no file.
C24_InvalidPathDispatchesNothing ==
    [][(Pressed /\ ~DirectoryTyped(isian')) =>
          /\ threads' = threads
          /\ dimulai' = dimulai
          /\ channel' = channel
          /\ terkirim' = terkirim
          /\ spinner' = spinner
          /\ count_label' = IF BlankTyped(isian')
                              THEN Label("invalid", "(masukkan path dulu)")
                              ELSE Label("invalid", "(path tidak valid)")
          /\ Label("invalid", "(masukkan path dulu)") # Label("invalid", "(path tidak valid)")
          /\ count_label' # Label("value", ToDecimal(0))]_vars

C24_Witness ==
    /\ isian.entry_path = FileSample
    /\ count_label = Label("invalid", "(path tidak valid)")
    /\ ditekan = 2
    /\ Len(threads) = 1
    /\ terkirim = 0
    /\ spinner

\* The results sent so far, in the order they were sent
SentLog ==
    [k \in 1..terkirim |->
        threads[CHOOSE i \in DOMAIN threads : threads[i].urutan = k].hasil]

Ended == {i \in DOMAIN threads : threads[i].hasil # NoResult}

\* C25: every press with a valid directory spawns exactly one thread; a
\* thread sends one result when it ends, never a second one, and nothing
\* else is ever sent; the poller takes at most one
\* result per tick, in the order sent, and shows it; the poller is never
\* removed; and, the timer firing again and again, every result sent is
\* eventually taken and shown.
C25_EveryResultIsEventuallyShownInOrder ==
    /\ [](/\ Len(threads) = dimulai
          /\ Cardinality(Ended) = terkirim
          /\ \A k \in 1..terkirim : \E i \in Ended : threads[i].urutan = k
          /\ diterima \o channel = SentLog
          /\ polling)
    /\ [][(Pressed /\ DirectoryTyped(isian')) => Len(threads') = Len(threads) + 1]_vars
    /\ [][diterima' # diterima =>
             /\ diterima' = Append(diterima, Head(channel))
             /\ channel' = Tail(channel)
             /\ [total_label |-> total_label', count_label |-> count_label',
                 ext_list |-> ext_list', file_list |-> file_list']
                   = tampilkan_hasil(Head(channel), Widgets)]_vars
    /\ [][terkirim' # terkirim =>
             \E i \in DOMAIN threads :
                /\ threads[i].hasil = NoResult
                /\ threads'[i].hasil # NoResult
                /\ channel' = Append(channel, threads'[i].hasil)
                /\ terkirim' = terkirim + 1
                /\ \A j \in DOMAIN threads \ {i} : threads'[j] = threads[j]]_vars
    /\ \A k \in 1..MaxPresses : (terkirim >= k) ~> (Len(diterima) >= k)

C25_Witness ==
    /\ Len(threads) = 2
    /\ threads[1].urutan = 2
    /\ threads[2].urutan = 1
    /\ diterima = <<threads[2].hasil, threads[1].hasil>>
    /\ threads[1].hasil # threads[2].hasil

\* Scans that were dispatched and whose result the poller has not taken yet
InFlight == Len(threads) - Len(diterima)

\* C26: the spinner runs exactly when some dispatched scan has not had its
\* result taken by the poller.
C26_SpinnerRunsWhileAScanIsInFlight ==
    spinner <=> (InFlight > 0)

\* C27: when every press dispatched a scan, there were at least two, the
\* last one with a threshold of its own, and every result has been taken,
\* the labels and the lists show the result of the scan requested last.
C27_LastRequestedScanIsShown ==
    (/\ Len(threads) >= 2
     /\ ditekan = Len(threads)
     /\ \A i \in 1..(Len(threads) - 1) :
           threads[i].ukuran_minimum # threads[Len(threads)].ukuran_minimum
     /\ Len(diterima) = Len(threads)) =>
       Widgets = tampilkan_hasil(threads[Len(threads)].hasil, Widgets)

\* C28: when the poller shows an error, the total label becomes "Total
\* size: -", the count label becomes the error text, and the two lists stay
\* as they were; when it shows a FolderStats, the two labels and the two
\* lists are all set from it.
C28_ErrorKeepsTheLists ==
    [][diterima' # diterima =>
          IF Head(channel).tag = "Err"
          THEN /\ total_label' = Dash
               /\ count_label' = Label("error", Head(channel).msg)
               /\ ext_list' = ext_list
               /\ file_list' = file_list
          ELSE /\ total_label' = Label("value", format_bytes(Head(channel).stats.total_size))
               /\ count_label' = Label("value", ToDecimal(Head(channel).stats.total_files))
               /\ ext_list' = populate_extension_list(Head(channel).stats.extension_count)
               /\ file_list' = populate_file_list(Head(channel).stats.filtered_files)]_vars

C28_Witness ==
    /\ Len(diterima) = 2
    /\ diterima[1].tag = "Ok"
    /\ diterima[2].tag = "Err"
    /\ total_label = Dash
    /\ count_label = Label("error", diterima[2].msg)
    /\ ext_list = populate_extension_list(diterima[1].stats.extension_count)
    /\ file_list = populate_file_list(diterima[1].stats.filtered_files)
    /\ ext_list # <<>>
    /\ file_list # <<>>

\* One scan_folder call
Init == InitScan /\ IpcIdle /\ PureIdle /\ UiIdle /\ WindowIdle

Next == NextScan

Spec == Init /\ [][Next]_vars

\* One scan_folder call on a file system that other programs change
NextLive ==
    \/ CollectPaths
    \/ HitungTotalUkuran
    \/ FoldEkstensi
    \/ ReduceEkstensi
    \/ UrutkanEkstensi
    \/ FilterFile
    \/ ReturnStats
    \/ FileVanishes
    \/ FileRewritten

SpecLive == Init /\ [][NextLive]_vars

\* One run_worker_scan call, or one direct start of the executable
InitDispatch == ScanIdle /\ InitIpc /\ PureIdle /\ UiIdle /\ WindowIdle

NextDispatch == NextIpc

SpecIpc == InitDispatch /\ [][NextDispatch]_vars

\* ekstrak_ekstensi_file applied to two file names
InitExt == ScanIdle /\ IpcIdle /\ InitEkstrak /\ FilterIdle /\ ParseIdle /\ UiIdle /\ WindowIdle

NextExt == EkstrakEkstensi

SpecExt == InitExt /\ [][NextExt]_vars

\* The window in use: button presses, worker threads and the polling handler
InitUi == ScanIdle /\ IpcIdle /\ PureIdle /\ UiIdle /\ WindowIdle

NextUi ==
    \/ handle_button_hitung_click
    \/ calc_btn_clicked
    \/ CollectPaths
    \/ HitungTotalUkuran
    \/ FoldEkstensi
    \/ ReduceEkstensi
    \/ UrutkanEkstensi
    \/ FilterFile
    \/ ReturnStats
    \/ SpawnWorkerProcess
    \/ MainExit
    \/ OutputCollected
    \/ ValidateWorkerSuccess
    \/ ParseWorkerOutput
    \/ KirimHasilWorker
    \/ KirimHasilScan
    \/ handle_channel_message

SpecUi == InitUi /\ [][NextUi]_vars

\* parse_filter_option of scan.rs and of main.rs applied to one label
InitOption == ScanIdle /\ IpcIdle /\ EkstrakIdle /\ InitFilter /\ ParseIdle /\ UiIdle /\ WindowIdle

NextOption == ParseFilterOption

SpecOption == InitOption /\ [][NextOption]_vars

\* parse_human_input_to_bytes of scan.rs and of main.rs applied to one text
InitText == ScanIdle /\ IpcIdle /\ EkstrakIdle /\ FilterIdle /\ InitParse /\ UiIdle /\ WindowIdle

NextText == ParseHumanInput

SpecText == InitText /\ [][NextText]_vars

\* The window with any number of scans in flight
InitPress == ScanIdle /\ IpcIdle /\ PureIdle /\ UiIdle /\ InitWindow

NextPress ==
    \/ setup_button_hitung
    \/ build_ui_connect_clicked
    \/ spawn_worker_thread
    \/ build_ui_thread
    \/ handle_channel_message

SpecPress == InitPress /\ [][NextPress]_vars

\* The same with the timer of the main loop firing again and again
SpecPressFair == SpecPress /\ WF_vars(handle_channel_message)

====
